---- MODULE Spec2Model ----
(***************************************************************************)
(* A model of the ray tracer's evaluation engine: the Intersections        *)
(* collection (push / merge / sort / hit), the containers scan of          *)
(* prepare_computation, the recursive World::color_at and the pixel        *)
(* parallel Camera::render_multi_threaded.                                 *)
(*                                                                         *)
(* Numbers.  f64 values are fixed-point integers.  Lengths, positions and  *)
(* ray parameters t are counted in units of EPSILON.  Colours, material    *)
(* coefficients and refractive indices are counted in thousandths          *)
(* (Unit = 1.0).  The three colour channels are computed independently by  *)
(* the same code, so one channel is modelled.                              *)
(*                                                                         *)
(* Geometry.  Scenes are restricted to one axis: every ray runs along the  *)
(* axis (direction +1 or -1), every sphere is centred on it, every plane   *)
(* is perpendicular to it and every cylinder has it as its own axis, as    *)
(* in the repository's tests (rays (0,0,-5)->(0,0,1), facing planes at     *)
(* y = -1 and y = 1).  On the axis every Tuple is a multiple of the axis   *)
(* vector, so Tuple arithmetic is integer arithmetic.                      *)
(***************************************************************************)
EXTENDS Integers, Sequences, FiniteSets, TLC

VARIABLES
    items,      \* Intersections.items of the collection under construction
    found,      \* the result of the last hit() call on items
    xs,         \* prepare_computation: the intersection list scanned
    target,     \* prepare_computation: self, the target intersection
    idx,        \* prepare_computation: index of the next element of xs
    containers, \* prepare_computation: the containers list
    n1,         \* prepare_computation: n1
    n2,         \* prepare_computation: n2
    world,      \* the World: light and objects
    ray0,       \* the ray of the outermost color_at call
    depth0,     \* the remaining depth of the outermost color_at call
    stack,      \* the call stack of color_at / shade_hit frames
    result,     \* the outcome of the outermost color_at call
    twin,       \* the outcome of a second color_at call on the same input
    cam,        \* the Camera: h_size, v_size and its ray per pixel
    submitted,  \* render_multi_threaded: pixels submitted to the pool so far
    queue,      \* the pool's job queue
    workers,    \* the pool's worker threads
    chan,       \* the mpsc channel: messages sent and not yet received
    canvas,     \* the Canvas being filled by the aggregator
    received,   \* the pixels of the messages received so far, in order
    mainpc,     \* position of the thread running render_multi_threaded
    call,       \* a call of a function of a shape or pattern: name and inputs
    out,        \* the outcome of that call
    image,      \* Camera::_render: the Canvas filled so far
    pixel       \* Camera::_render: the number of pixels written so far

hitVars    == <<items, found>>
scanVars   == <<xs, target, idx, containers, n1, n2>>
worldVars  == <<world, ray0, depth0, stack, result, twin>>
renderVars == <<cam, submitted, queue, workers, chan, canvas, received, mainpc>>
callVars   == <<call, out>>
imageVars  == <<image, pixel>>
vars       == <<hitVars, scanVars, worldVars, renderVars, callVars, imageVars>>

----------------------------------------------------------------------------
(* Bounds of the model *)

\* the longest collection built by pushes
MaxLen == 4

\* the t values pushed
TValues == -2 .. 3

\* the largest remaining depth given to the outermost color_at call
MaxDepth == 2

\* the longest intersection list given to prepare_computation
MaxXs == 6

\* the most pixels (h_size * v_size) of a camera
MaxPixels == 3

\* the threads of the pool: num_cpus::get()
NumWorkers == 2

----------------------------------------------------------------------------
(* Option<T>: None is the empty sequence, Some(x) the one-element sequence *)

None == <<>>

Some(x) == <<x>>

----------------------------------------------------------------------------
(* Fixed-point numbers *)

\* math::EPSILON, the unit of every length
EPSILON == 1

\* the f64 1.0 of colours, coefficients and refractive indices
Unit == 1000

\* f64 multiplication of two Unit-scaled values
Mul(a, b) == (a * b) \div Unit

\* f64 division of two Unit-scaled values
Div(a, b) == (a * Unit) \div b

\* Tuple::normalize on the axis: the sign of a non-zero vector
Normalize(v) == IF v < 0 THEN -1 ELSE 1

\* Tuple::magnitude on the axis
Magnitude(v) == IF v < 0 THEN -v ELSE v

\* Tuple::reflect
Reflect(v, normal) == v - normal * 2 * (v * normal)

\* Color::black
Black == 0

----------------------------------------------------------------------------
(* Material (src/src/scene/shading/material.rs) *)

\* Material::new
NewMaterial ==
    [color |-> Unit, ambient |-> 100, diffuse |-> 900, specular |-> 900,
     reflective |-> 0, transparency |-> 0, refractive_index |-> Unit]

\* samples::utility::mirror_material
MirrorMaterial ==
    [NewMaterial EXCEPT !.diffuse = 100, !.ambient = 100,
                        !.reflective = Unit, !.specular = Unit]

\* samples::utility::glass_material
GlassMaterial ==
    [NewMaterial EXCEPT !.diffuse = 100, !.ambient = 100, !.reflective = 900,
                        !.transparency = Unit, !.refractive_index = 1500,
                        !.specular = Unit]

\* a transparent material of the given refractive index, as the tests'
\* set_material_transparency(1.) and set_material_refractive_index(ri)
ClearMaterial(ri) ==
    [NewMaterial EXCEPT !.transparency = Unit, !.refractive_index = ri]

Materials == {NewMaterial, MirrorMaterial, GlassMaterial, ClearMaterial(1500)}

----------------------------------------------------------------------------
(* Shapes.  A shape is a record; its transform is a translation along the  *)
(* axis (and, for a sphere, a uniform scaling).                            *)

\* Sphere with transform translation(c) * scaling(r)
Sphere(c, r) == [kind |-> "sphere", c |-> c, r |-> r]

\* Plane with transform translation(p); its normal is the axis
Plane(p) == [kind |-> "plane", p |-> p]

\* Cylinder::with_min_max(min, max), closed or not, untransformed
Cylinder(min, max, closed) ==
    [kind |-> "cylinder", min |-> min, max |-> max, closed |-> closed]

\* a shape placed in a world: ShapeProps {id, transform, material}
Object(id, shape, material) ==
    [id |-> id, shape |-> shape, material |-> material]

\* Shape::get_id
get_id(o) == o.id

\* Material::get_refractive_index of an object
get_refractive_index(o) == o.material.refractive_index

\* Ray::new
Ray(origin, direction) == [origin |-> origin, direction |-> direction]

\* Ray::position
position(ray, t) == ray.origin + ray.direction * t

RECURSIVE SqrtIn(_, _, _)
SqrtIn(n, lo, hi) ==
    IF lo >= hi THEN lo
    ELSE LET mid == (lo + hi + 1) \div 2 IN
         IF mid * mid <= n THEN SqrtIn(n, mid, hi) ELSE SqrtIn(n, lo, mid - 1)

\* f64::sqrt of an integer: the largest k with k * k <= n (46340 is the
\* largest k whose square is a 32-bit integer)
Sqrt(n) == SqrtIn(n, 0, IF n > 46340 THEN 46340 ELSE n)

\* f64::sqrt of a Unit-scaled value
FSqrt(x) == Sqrt(x * Unit)

\* Sphere::intersect for the object-space ray: the quadratic |O + tD|^2 = r^2
\* written in world units (both sides of the code's equation times r^2)
SphereIntersect(k, s, ray) ==
    LET sphere_to_ray == ray.origin - s.c
        a == ray.direction * ray.direction
        b == 2 * ray.direction * sphere_to_ray
        c == sphere_to_ray * sphere_to_ray - s.r * s.r
        discriminant == b * b - 4 * a * c
    IN  IF discriminant < 0 THEN None
        ELSE LET t1 == (-b - Sqrt(discriminant)) \div (2 * a)
                 t2 == (-b + Sqrt(discriminant)) \div (2 * a)
             IN  Some(<<[t |-> t1, object |-> k], [t |-> t2, object |-> k]>>)

\* Plane::local_intersect: |direction.y| is 1 on the axis, never below EPSILON
PlaneIntersect(k, s, ray) ==
    LET t == (-(ray.origin - s.p)) \div ray.direction
    IN  Some(<<[t |-> t, object |-> k]>>)

\* Cylinder::intersect_caps; check_cap holds on the axis (x = z = 0)
CylinderIntersectCaps(k, s, ray) ==
    IF ~s.closed THEN <<>>
    ELSE <<[t |-> (s.min - ray.origin) \div ray.direction, object |-> k],
           [t |-> (s.max - ray.origin) \div ray.direction, object |-> k]>>

\* Cylinder::local_intersect: on the axis a = 0, so only the caps are tested
CylinderIntersect(k, s, ray) == Some(CylinderIntersectCaps(k, s, ray))

\* Shape::intersect of the k-th object: the (t, object) pairs in the order
\* the shape pushes them, or None
ShapeIntersect(k, o, ray) ==
    CASE o.shape.kind = "sphere"   -> SphereIntersect(k, o.shape, ray)
      [] o.shape.kind = "plane"    -> PlaneIntersect(k, o.shape, ray)
      [] o.shape.kind = "cylinder" -> CylinderIntersect(k, o.shape, ray)

\* Shape::normal_at for a point of the surface
normal_at(o, point) ==
    CASE o.shape.kind = "sphere"   -> Normalize(point - o.shape.c)
      [] o.shape.kind = "plane"    -> 1
      [] o.shape.kind = "cylinder" ->
            IF point >= o.shape.max - EPSILON THEN 1 ELSE -1

----------------------------------------------------------------------------
(* Intersection and Intersections (src/src/intersection.rs) *)

\* Intersection::new: id stands for the Uuid::new_v4() the constructor draws
Intersection(t, object, id) == [t |-> t, object |-> object, id |-> id]

\* an equality by t and object
IntersectionEqByValue(a, b) == a.t = b.t /\ a.object = b.object

\* PartialEq for Intersection: identity is the id alone
IntersectionEq(a, b) == a.id = b.id

\* Intersections::push
push(its, i) == Append(its, i)

\* Intersections::merge: every item of other is pushed, in order
merge(its, other) == its \o other

RECURSIVE HitFrom(_, _, _)
HitFrom(its, k, res) ==
    IF k > Len(its) THEN res
    ELSE LET i == its[k] IN
         IF i.t > 0
         THEN IF res = None THEN HitFrom(its, k + 1, Some(i))
              ELSE IF i.t < res[1].t THEN HitFrom(its, k + 1, Some(i))
              ELSE HitFrom(its, k + 1, res)
         ELSE HitFrom(its, k + 1, res)

\* Intersections::hit
hit(its) == HitFrom(its, 1, None)

\* a comparator that orders equal t by id
GreaterById(a, b) == a.t > b.t \/ (a.t = b.t /\ a.id > b.id)

\* the comparator of Intersections::sort says Greater for (a, b)
Greater(a, b) == ~(a.t < b.t) /\ ~(a.t = b.t)

\* insertion of x behind every element the comparator does not put after it
Insert(sorted, x) ==
    LET after == {j \in 1 .. Len(sorted) : Greater(sorted[j], x)}
        at == IF after = {} THEN Len(sorted) + 1
              ELSE CHOOSE j \in after : \A l \in after : j <= l
    IN  SubSeq(sorted, 1, at - 1) \o <<x>> \o SubSeq(sorted, at, Len(sorted))

RECURSIVE SortFrom(_, _, _)
SortFrom(its, k, acc) ==
    IF k > Len(its) THEN acc ELSE SortFrom(its, k + 1, Insert(acc, its[k]))

\* Intersections::sort: slice::sort_by is a stable sort by the comparator
sort(its) == SortFrom(its, 1, <<>>)

----------------------------------------------------------------------------
(* World (src/src/scene/world.rs) *)

\* World { light, objects }: light is None or Some(PointLight)
World(light, objects) == [light |-> light, objects |-> objects]

\* PointLight::new
PointLight(pos, intensity) == [position |-> pos, intensity |-> intensity]

RECURSIVE IntersectFrom(_, _, _, _, _)
IntersectFrom(w, ray, u, k, acc) ==
    IF k > Len(w.objects) THEN acc
    ELSE LET r == ShapeIntersect(k, w.objects[k], ray) IN
         IF r = None THEN IntersectFrom(w, ray, u, k + 1, acc)
         ELSE IntersectFrom(w, ray, u, k + 1,
                 merge(acc, [j \in 1 .. Len(r[1]) |->
                     Intersection(r[1][j].t, r[1][j].object, u[Len(acc) + j])]))

\* the merge of World::intersect without its sort
intersect_unsorted(w, ray, u) == IntersectFrom(w, ray, u, 1, <<>>)

\* World::intersect; u[n] is the Uuid drawn for the n-th Intersection::new
intersect(w, ray, u) == sort(IntersectFrom(w, ray, u, 1, <<>>))

----------------------------------------------------------------------------
(* Intersection::prepare_computation *)

\* a removal of the last element instead of the j-th
RemoveLast(seq, j) == SubSeq(seq, 1, Len(seq) - 1)

\* Vec::remove
Remove(seq, j) == SubSeq(seq, 1, j - 1) \o SubSeq(seq, j + 1, Len(seq))

\* containers.iter().position(|shape| shape.get_id() == id): 0 for None
Position(w, cs, id) ==
    LET at == {j \in 1 .. Len(cs) : get_id(w.objects[cs[j]]) = id}
    IN  IF at = {} THEN 0 ELSE CHOOSE j \in at : \A l \in at : j <= l

\* the refractive index of containers.first() instead
FirstIndex(w, cs) ==
    IF cs = <<>> THEN Unit ELSE get_refractive_index(w.objects[cs[1]])

\* the refractive index of containers.last(), 1.0 for an empty list
LastIndex(w, cs) ==
    IF cs = <<>> THEN Unit ELSE get_refractive_index(w.objects[cs[Len(cs)]])

\* the state of the containers scan before its first iteration
ScanStart == [containers |-> <<>>, n1 |-> 0, n2 |-> 0, break |-> FALSE]

\* an iteration that reads n1 after the toggle, as it reads n2
ScanStepAfterToggle(w, st, i, self) ==
    LET at == Position(w, st.containers, get_id(w.objects[i.object]))
        toggled == IF at # 0 THEN Remove(st.containers, at)
                   ELSE Append(st.containers, i.object)
    IN  [containers |-> toggled,
         n1 |-> IF IntersectionEq(i, self) THEN LastIndex(w, toggled)
                ELSE st.n1,
         n2 |-> IF IntersectionEq(i, self) THEN LastIndex(w, toggled)
                ELSE st.n2,
         break |-> IntersectionEq(i, self)]

\* one iteration of the loop over xs.items, for the element i
ScanStep(w, st, i, self) ==
    LET at == Position(w, st.containers, get_id(w.objects[i.object]))
        toggled == IF at # 0 THEN Remove(st.containers, at)
                   ELSE Append(st.containers, i.object)
    IN  [containers |-> toggled,
         n1 |-> IF IntersectionEq(i, self) THEN LastIndex(w, st.containers)
                ELSE st.n1,
         n2 |-> IF IntersectionEq(i, self) THEN LastIndex(w, toggled)
                ELSE st.n2,
         break |-> IntersectionEq(i, self)]

RECURSIVE ScanFrom(_, _, _, _, _)
ScanFrom(w, its, self, k, st) ==
    IF k > Len(its) \/ st.break THEN st
    ELSE ScanFrom(w, its, self, k + 1, ScanStep(w, st, its[k], self))

\* Intersection::prepare_computation
prepare_computation(w, self, ray, its) ==
    LET point == position(ray, self.t)
        eye_v == -ray.direction
        normal == normal_at(w.objects[self.object], point)
        inside == normal * eye_v < 0
        normal_v == IF inside THEN -normal ELSE normal
        scan == ScanFrom(w, its, self, 1, ScanStart)
    IN  [t |-> self.t, object |-> self.object, point |-> point,
         over_point |-> point + normal_v * EPSILON,
         under_point |-> point - normal_v * EPSILON,
         eye_v |-> eye_v, normal_v |-> normal_v,
         reflect_v |-> Reflect(ray.direction, normal_v),
         inside |-> inside, n1 |-> scan.n1, n2 |-> scan.n2]

----------------------------------------------------------------------------
(* Shading: Material::lighting, Computation::schlick and the World's       *)
(* shadow test                                                             *)

\* the outcome of a call: a colour, or the panic that unwinds the thread
Ok(c) == [panic |-> FALSE, color |-> c]

Panic == [panic |-> TRUE, color |-> 0]

\* Material::lighting for a material without a pattern.  A light at the
\* shaded position itself makes light_v NaN, and every comparison false.
lighting(m, light, pos, eye_v, normal_v, in_shadow) ==
    LET effective_color == Mul(m.color, light.intensity)
        nan == light.position = pos
        light_v == Normalize(light.position - pos)
        ambient == Mul(effective_color, m.ambient)
        light_dot_normal == light_v * normal_v
        lit == ~in_shadow /\ ~nan /\ light_dot_normal >= 0
        diffuse == IF lit
                   THEN Mul(effective_color, m.diffuse) * light_dot_normal
                   ELSE Black
        reflect_v == -Reflect(light_v, normal_v)
        reflect_dot_eye == reflect_v * eye_v
        specular == IF lit /\ reflect_dot_eye > 0
                    THEN Mul(light.intensity, m.specular)
                    ELSE Black
    IN  ambient + diffuse + specular

\* f64::powi(5) of a Unit-scaled value
Pow5(x) == Mul(Mul(Mul(Mul(x, x), x), x), x)

\* Computation::schlick
schlick(comp) ==
    LET cos_i == (comp.eye_v * comp.normal_v) * Unit
        n == Div(comp.n1, comp.n2)
        sin2_t == Mul(Mul(n, n), Unit - Mul(cos_i, cos_i))
        total == comp.n1 > comp.n2 /\ sin2_t > Unit
        cos == IF comp.n1 > comp.n2 THEN FSqrt(Unit - sin2_t) ELSE cos_i
        d == Div(comp.n1 - comp.n2, comp.n1 + comp.n2)
        r0 == Mul(d, d)
    IN  IF total THEN Unit ELSE r0 + Mul(Unit - r0, Pow5(Unit - cos))

\* the Uuids a call of World::intersect draws, in the order of the
\* Intersection::new calls, when none of them is compared with another
NoIds == [n \in 1 .. 8 |-> n]

\* a shadow test that takes every hit for a shadow
is_shadowed_by_any_hit(w, point) ==
    IF w.light = None THEN FALSE
    ELSE LET direction_v == w.light[1].position - point
             direction == Normalize(direction_v)
         IN  hit(intersect(w, Ray(point, direction), NoIds)) # None

\* World::is_shadowed
is_shadowed(w, point) ==
    IF w.light = None THEN FALSE
    ELSE LET direction_v == w.light[1].position - point
             distance == Magnitude(direction_v)
             direction == Normalize(direction_v)
             h == hit(intersect(w, Ray(point, direction), NoIds))
         IN  IF h = None THEN FALSE ELSE h[1].t < distance

\* World::shade_hit up to the unwrap of the light: TRUE when it panics
light_unwrap_panics(w) == w.light = None

\* World::shade_hit: the surface colour
surface_color(w, comp) ==
    lighting(w.objects[comp.object].material, w.light[1], comp.over_point,
             comp.eye_v, comp.normal_v, is_shadowed(w, comp.over_point))

\* World::reflected_color: the two early returns
reflect_black(w, comp, remaining) ==
    \/ remaining <= 0
    \/ w.objects[comp.object].material.reflective = 0

\* a reflected ray that starts below the surface
reflect_ray_under(comp) == Ray(comp.under_point, comp.reflect_v)

\* World::reflected_color: the reflected ray
reflect_ray(comp) == Ray(comp.over_point, comp.reflect_v)

\* World::refracted_color: sin2_t of Snell's law
sin2_t(comp) ==
    LET n_ratio == Div(comp.n1, comp.n2)
        cos_i == (comp.eye_v * comp.normal_v) * Unit
    IN  Mul(Mul(n_ratio, n_ratio), Unit - Mul(cos_i, cos_i))

\* World::refracted_color: the early returns
refract_black(w, comp, remaining) ==
    \/ remaining <= 0
    \/ w.objects[comp.object].material.transparency = 0
    \/ sin2_t(comp) > Unit

\* World::refracted_color: the refracted ray
refract_ray(comp) ==
    LET n_ratio == Div(comp.n1, comp.n2)
        cos_i == (comp.eye_v * comp.normal_v) * Unit
        cos_t == FSqrt(Unit - sin2_t(comp))
        direction == comp.normal_v * (Mul(n_ratio, cos_i) - cos_t)
                     - comp.eye_v * n_ratio
    IN  Ray(comp.under_point, direction \div Unit)

\* a shade_hit that sums the three contributions whatever the material
combine_plain(w, comp, surface, reflected, refracted) ==
    surface + reflected + refracted

\* World::shade_hit: the sum of the three contributions
combine(w, comp, surface, reflected, refracted) ==
    LET m == w.objects[comp.object].material IN
    IF m.reflective > 0 /\ m.transparency > 0
    THEN LET reflectance == schlick(comp) IN
         surface + Mul(reflected, reflectance)
                 + Mul(refracted, Unit - reflectance)
    ELSE surface + reflected + refracted

RECURSIVE color_at(_, _, _, _)
RECURSIVE shade_hit(_, _, _, _)
RECURSIVE reflected_color(_, _, _, _)
RECURSIVE refracted_color(_, _, _, _)

\* World::reflected_color
reflected_color(w, comp, remaining, u) ==
    IF reflect_black(w, comp, remaining) THEN Ok(Black)
    ELSE LET c == color_at(w, reflect_ray(comp), remaining - 1, u) IN
         IF c.panic THEN Panic
         ELSE Ok(Mul(c.color, w.objects[comp.object].material.reflective))

\* World::refracted_color
refracted_color(w, comp, remaining, u) ==
    IF refract_black(w, comp, remaining) THEN Ok(Black)
    ELSE LET c == color_at(w, refract_ray(comp), remaining - 1, u) IN
         IF c.panic THEN Panic
         ELSE Ok(Mul(c.color, w.objects[comp.object].material.transparency))

\* World::shade_hit
shade_hit(w, comp, remaining, u) ==
    IF light_unwrap_panics(w) THEN Panic
    ELSE LET reflected == reflected_color(w, comp, remaining, u) IN
         IF reflected.panic THEN Panic
         ELSE LET refracted == refracted_color(w, comp, remaining, u) IN
              IF refracted.panic THEN Panic
              ELSE Ok(combine(w, comp, surface_color(w, comp),
                              reflected.color, refracted.color))

\* World::color_at
color_at(w, ray, remaining, u) ==
    LET its == intersect(w, ray, u)
        h == hit(its)
    IN  IF h = None THEN Ok(Black)
        ELSE shade_hit(w, prepare_computation(w, h[1], ray, its), remaining, u)

----------------------------------------------------------------------------
(* The values of the variables a specification does not use *)

HitUnused == items = <<>> /\ found = <<>>

ScanUnused ==
    /\ xs = <<>> /\ target = <<>> /\ idx = 0
    /\ containers = <<>> /\ n1 = 0 /\ n2 = 0

EvalUnused ==
    /\ ray0 = [origin |-> 0, direction |-> 1]
    /\ depth0 = 0 /\ stack = <<>>
    /\ result = [panic |-> FALSE, color |-> -1]
    /\ twin = [panic |-> FALSE, color |-> -1]

WorldUnused ==
    /\ world = [light |-> <<>>, objects |-> <<>>]
    /\ EvalUnused

RenderUnused ==
    /\ cam = <<>> /\ submitted = 0 /\ queue = <<>> /\ workers = <<>>
    /\ chan = <<>> /\ canvas = <<>> /\ received = <<>> /\ mainpc = "unused"

CallUnused == call = <<>> /\ out = <<>>

ImageUnused == image = <<>> /\ pixel = 0

----------------------------------------------------------------------------
(* Specification SpecHit: a collection is built by arbitrary pushes and    *)
(* hit() is called on it.                                                  *)

HitIdle == <<>>

InitHit ==
    /\ items = <<>>
    /\ found = HitIdle
    /\ ScanUnused /\ WorldUnused /\ RenderUnused /\ CallUnused /\ ImageUnused

\* Intersections::push of a new Intersection
PushItem ==
    /\ Len(items) < MaxLen
    /\ \E t \in TValues :
          items' = push(items, Intersection(t, 1, Len(items) + 1))
    /\ found' = HitIdle
    /\ UNCHANGED <<scanVars, worldVars, renderVars, callVars, imageVars>>

\* a call of Intersections::hit
CallHit ==
    /\ found = HitIdle
    /\ found' = Some(hit(items))
    /\ UNCHANGED items
    /\ UNCHANGED <<scanVars, worldVars, renderVars, callVars, imageVars>>

NextHit == PushItem \/ CallHit

SpecHit == InitHit /\ [][NextHit]_vars

----------------------------------------------------------------------------
(* The worlds and rays the outermost color_at call is given *)

Shapes == {Plane(-4), Plane(4), Sphere(0, 2), Cylinder(-2, 2, TRUE)}

Lights == {None, Some(PointLight(0, Unit))}

ObjectLists ==
    {<<>>}
    \cup {<<Object(1, s, m)>> : s \in Shapes, m \in Materials}
    \cup {<<Object(1, s[1], m[1]), Object(2, s[2], m[2])>> :
             s \in Shapes \X Shapes, m \in Materials \X Materials}

\* two facing mirrors, as test_color_at_with_mutually_reflective_surfaces
MirrorRoom(l) ==
    World(l, <<Object(1, Plane(-4), MirrorMaterial),
               Object(2, Plane(4), MirrorMaterial)>>)

Worlds == {World(l, os) : l \in Lights, os \in ObjectLists}

Rays == {Ray(-6, 1), Ray(-4, 1), Ray(0, 1), Ray(0, -1)}

\* the Uuids one call of World::intersect can draw, in the order of its
\* Intersection::new calls: distinct values, in any order
IdDraws == {<<1, 2, 3, 4>>, <<4, 3, 2, 1>>, <<2, 4, 1, 3>>}

----------------------------------------------------------------------------
(* Specification SpecWorld: one color_at call runs frame by frame (a frame *)
(* is a color_at call together with the shade_hit call it ends in), and a  *)
(* second call on the same world, ray and depth runs beside it.            *)

NoComp ==
    [t |-> 0, object |-> 0, point |-> 0, over_point |-> 0, under_point |-> 0,
     eye_v |-> 0, normal_v |-> 0, reflect_v |-> 0, inside |-> FALSE,
     n1 |-> 0, n2 |-> 0]

Frame(ray, remaining) ==
    [ray |-> ray, remaining |-> remaining, pc |-> "color_at", comp |-> NoComp,
     surface |-> Black, reflected |-> Black, refracted |-> Black]

\* no outcome yet
Pending == [panic |-> FALSE, color |-> -1]

MaxStack == MaxDepth + 2

Top == stack[Len(stack)]

SetTop(f) == [stack EXCEPT ![Len(stack)] = f]

\* the top frame returns colour c: to World::reflected_color or
\* World::refracted_color of the calling frame, or to the outermost caller
Return(c) ==
    IF Len(stack) = 1
    THEN /\ stack' = <<>>
         /\ result' = Ok(c)
    ELSE LET caller == stack[Len(stack) - 1]
             m == world.objects[caller.comp.object].material
             back == IF caller.pc = "reflected_color"
                     THEN [caller EXCEPT !.reflected = Mul(c, m.reflective),
                                         !.pc = "refracted"]
                     ELSE [caller EXCEPT !.refracted = Mul(c, m.transparency),
                                         !.pc = "combine"]
         IN  /\ stack' = Append(SubSeq(stack, 1, Len(stack) - 2), back)
             /\ UNCHANGED result

InitWorld ==
    /\ world \in Worlds
    /\ ray0 \in Rays
    /\ depth0 \in 0 .. MaxDepth
    /\ stack = <<Frame(ray0, depth0)>>
    /\ result = Pending
    /\ twin = Pending
    /\ HitUnused /\ ScanUnused /\ RenderUnused /\ CallUnused /\ ImageUnused

\* color_at: xs.hit() is None
ColorAtMiss ==
    /\ stack # <<>> /\ Top.pc = "color_at"
    /\ \E u \in IdDraws :
          /\ hit(intersect(world, Top.ray, u)) = None
          /\ Return(Black)
    /\ UNCHANGED <<world, ray0, depth0, twin>>
    /\ UNCHANGED <<hitVars, scanVars, renderVars, callVars, imageVars>>

\* color_at finds a hit and shade_hit unwraps a missing light
ShadeHitPanic ==
    /\ stack # <<>> /\ Top.pc = "color_at"
    /\ \E u \in IdDraws : hit(intersect(world, Top.ray, u)) # None
    /\ light_unwrap_panics(world)
    /\ stack' = <<>>
    /\ result' = Panic
    /\ UNCHANGED <<world, ray0, depth0, twin>>
    /\ UNCHANGED <<hitVars, scanVars, renderVars, callVars, imageVars>>

\* color_at finds a hit, prepares the computation, and shade_hit computes
\* the surface colour
ShadeHitSurface ==
    /\ stack # <<>> /\ Top.pc = "color_at"
    /\ ~light_unwrap_panics(world)
    /\ \E u \in IdDraws :
          LET its == intersect(world, Top.ray, u)
              h == hit(its)
          IN  /\ h # None
              /\ LET comp == prepare_computation(world, h[1], Top.ray, its)
                 IN  stack' = SetTop([Top EXCEPT
                                        !.comp = comp,
                                        !.surface = surface_color(world, comp),
                                        !.pc = "reflected"])
    /\ UNCHANGED <<world, ray0, depth0, result, twin>>
    /\ UNCHANGED <<hitVars, scanVars, renderVars, callVars, imageVars>>

\* reflected_color returns black at once
ReflectedBlack ==
    /\ stack # <<>> /\ Top.pc = "reflected"
    /\ reflect_black(world, Top.comp, Top.remaining)
    /\ stack' = SetTop([Top EXCEPT !.reflected = Black, !.pc = "refracted"])
    /\ UNCHANGED <<world, ray0, depth0, result, twin>>
    /\ UNCHANGED <<hitVars, scanVars, renderVars, callVars, imageVars>>

\* reflected_color calling color_at with the depth it was given
ReflectedCallSameDepth ==
    /\ stack # <<>> /\ Top.pc = "reflected"
    /\ ~reflect_black(world, Top.comp, Top.remaining)
    /\ Len(stack) < MaxStack
    /\ stack' = Append(SetTop([Top EXCEPT !.pc = "reflected_color"]),
                       Frame(reflect_ray(Top.comp), Top.remaining))
    /\ UNCHANGED <<world, ray0, depth0, result, twin>>
    /\ UNCHANGED <<hitVars, scanVars, renderVars, callVars, imageVars>>

\* reflected_color calls color_at
ReflectedCall ==
    /\ stack # <<>> /\ Top.pc = "reflected"
    /\ ~reflect_black(world, Top.comp, Top.remaining)
    /\ Len(stack) < MaxStack
    /\ stack' = Append(SetTop([Top EXCEPT !.pc = "reflected_color"]),
                       Frame(reflect_ray(Top.comp), Top.remaining - 1))
    /\ UNCHANGED <<world, ray0, depth0, result, twin>>
    /\ UNCHANGED <<hitVars, scanVars, renderVars, callVars, imageVars>>

\* refracted_color returns black at once
RefractedBlack ==
    /\ stack # <<>> /\ Top.pc = "refracted"
    /\ refract_black(world, Top.comp, Top.remaining)
    /\ stack' = SetTop([Top EXCEPT !.refracted = Black, !.pc = "combine"])
    /\ UNCHANGED <<world, ray0, depth0, result, twin>>
    /\ UNCHANGED <<hitVars, scanVars, renderVars, callVars, imageVars>>

\* refracted_color calling color_at with the depth it was given
RefractedCallSameDepth ==
    /\ stack # <<>> /\ Top.pc = "refracted"
    /\ ~refract_black(world, Top.comp, Top.remaining)
    /\ Len(stack) < MaxStack
    /\ stack' = Append(SetTop([Top EXCEPT !.pc = "refracted_color"]),
                       Frame(refract_ray(Top.comp), Top.remaining))
    /\ UNCHANGED <<world, ray0, depth0, result, twin>>
    /\ UNCHANGED <<hitVars, scanVars, renderVars, callVars, imageVars>>

\* refracted_color calls color_at
RefractedCall ==
    /\ stack # <<>> /\ Top.pc = "refracted"
    /\ ~refract_black(world, Top.comp, Top.remaining)
    /\ Len(stack) < MaxStack
    /\ stack' = Append(SetTop([Top EXCEPT !.pc = "refracted_color"]),
                       Frame(refract_ray(Top.comp), Top.remaining - 1))
    /\ UNCHANGED <<world, ray0, depth0, result, twin>>
    /\ UNCHANGED <<hitVars, scanVars, renderVars, callVars, imageVars>>

\* shade_hit returns the sum of its three contributions
ShadeHitReturn ==
    /\ stack # <<>> /\ Top.pc = "combine"
    /\ Return(combine(world, Top.comp, Top.surface, Top.reflected,
                      Top.refracted))
    /\ UNCHANGED <<world, ray0, depth0, twin>>
    /\ UNCHANGED <<hitVars, scanVars, renderVars, callVars, imageVars>>

\* the second color_at call, with Uuids of its own
TwinCall ==
    /\ twin = Pending
    /\ \E u \in IdDraws : twin' = color_at(world, ray0, depth0, u)
    /\ UNCHANGED <<world, ray0, depth0, stack, result>>
    /\ UNCHANGED <<hitVars, scanVars, renderVars, callVars, imageVars>>

NextWorld ==
    \/ ColorAtMiss \/ ShadeHitPanic \/ ShadeHitSurface
    \/ ReflectedBlack \/ ReflectedCall
    \/ RefractedBlack \/ RefractedCall
    \/ ShadeHitReturn \/ TwinCall

SpecWorld == InitWorld /\ [][NextWorld]_vars

----------------------------------------------------------------------------
(* Specification SpecPrepare: the containers scan of prepare_computation   *)
(* runs iteration by iteration over a list of intersections of three       *)
(* overlapping glass spheres A, B, C (refractive indices 1.5, 2.0, 2.5),   *)
(* for a target that is an element of the list or a separately built       *)
(* intersection with the t and object of its first element.                *)

\* the spheres of test_finding_n1_and_n2_at_various_intersections, with
\* 1.0 = 4 EPSILON: scaling(2), translation(-0.25), translation(0.25)
GlassWorld ==
    World(None, <<Object(1, Sphere(0, 8), ClearMaterial(1500)),
                  Object(2, Sphere(-1, 4), ClearMaterial(2000)),
                  Object(3, Sphere(1, 4), ClearMaterial(2500))>>)

\* the object of every element of a list
ObjectsOf(its) == [k \in 1 .. Len(its) |-> its[k].object]

\* the sorted list whose k-th element is on object os[k], built by
\* Intersection::new calls in that order
ListOf(os) == [k \in 1 .. Len(os) |-> Intersection(k, os[k], k)]

ObjectSeqs == UNION {[1 .. n -> 1 .. 3] : n \in 0 .. MaxXs}

\* an Intersection::new of its own: the id is a new one
Foreign(its) ==
    IF its = <<>> THEN Intersection(1, 1, 1)
    ELSE Intersection(its[1].t, its[1].object, Len(its) + 1)

Returned == idx = 0

InitPrepare ==
    /\ world = GlassWorld
    /\ xs \in {ListOf(os) : os \in ObjectSeqs}
    /\ target \in {xs[k] : k \in 1 .. Len(xs)} \cup {Foreign(xs)}
    /\ idx = 1
    /\ containers = ScanStart.containers
    /\ n1 = ScanStart.n1
    /\ n2 = ScanStart.n2
    /\ HitUnused /\ EvalUnused /\ RenderUnused /\ CallUnused /\ ImageUnused

\* one iteration of `for i in &xs.items`, with its break
ScanIteration ==
    /\ idx \in 1 .. Len(xs)
    /\ LET st == ScanStep(world,
                          [containers |-> containers, n1 |-> n1, n2 |-> n2,
                           break |-> FALSE],
                          xs[idx], target)
       IN  /\ containers' = st.containers
           /\ n1' = st.n1
           /\ n2' = st.n2
           /\ idx' = IF st.break THEN 0 ELSE idx + 1
    /\ UNCHANGED <<xs, target>>
    /\ UNCHANGED <<hitVars, worldVars, renderVars, callVars, imageVars>>

\* the loop ends without a break
ScanExhausted ==
    /\ idx = Len(xs) + 1
    /\ idx' = 0
    /\ UNCHANGED <<xs, target, containers, n1, n2>>
    /\ UNCHANGED <<hitVars, worldVars, renderVars, callVars, imageVars>>

NextPrepare == ScanIteration \/ ScanExhausted

SpecPrepare == InitPrepare /\ [][NextPrepare]_vars

----------------------------------------------------------------------------
(* Canvas (src/src/scene/canvas.rs) and Camera (src/src/scene/camera.rs) *)

\* Canvas::new; panic records an index out of the bounds of pixels
NewCanvas(width, height) ==
    [width |-> width, height |-> height,
     pixels |-> [p \in (0 .. width - 1) \X (0 .. height - 1) |-> Black],
     panic |-> FALSE]

\* Canvas::write_pixel
write_pixel(c, x, y, color) ==
    IF x > c.width \/ y > c.height THEN c
    ELSE IF <<x, y>> \in DOMAIN c.pixels
         THEN [c EXCEPT !.pixels[<<x, y>>] = color]
         ELSE [c EXCEPT !.panic = TRUE]

\* the remaining depth both renderers give color_at
RenderDepth == 5

\* Camera::ray_for_pixel: the camera's ray through pixel (x, y)
ray_for_pixel(c, x, y) == c.rays[<<x, y>>]

\* the n-th pixel (from 0) of `for y in 0..v_size { for x in 0..h_size`
Pixel(c, n) == <<n % c.h_size, n \div c.h_size>>

\* a task given the ray of the first pixel
stale_ray(c, x, y) == ray_for_pixel(c, 0, 0)

\* the ray a pixel's task is given
task_ray(c, x, y) == ray_for_pixel(c, x, y)

\* the message a task sends
message(x, y, color) == [x |-> x, y |-> y, color |-> color]

RECURSIVE RenderFrom(_, _, _, _, _)
RenderFrom(c, w, u, n, cv) ==
    IF n = c.h_size * c.v_size THEN [panic |-> cv.panic, canvas |-> cv]
    ELSE LET x == Pixel(c, n)[1]
             y == Pixel(c, n)[2]
             color == color_at(w, ray_for_pixel(c, x, y), RenderDepth, u)
         IN  IF color.panic \/ cv.panic THEN [panic |-> TRUE, canvas |-> cv]
             ELSE RenderFrom(c, w, u, n + 1, write_pixel(cv, x, y, color.color))

\* Camera::_render: the canvas, or the panic of the thread
render(c, w, u) == RenderFrom(c, w, u, 0, NewCanvas(c.h_size, c.v_size))

----------------------------------------------------------------------------
(* Specification SpecRender: Camera::render_multi_threaded.  The calling   *)
(* thread submits one task per pixel to the pool and then receives         *)
(* h_size * v_size messages; each pool thread takes a job from the queue   *)
(* and runs it.  A task whose color_at panics unwinds its thread (the pool *)
(* replaces it) and drops its clone of tx without sending.  The caller's   *)
(* own tx lives until the function returns, so recv never sees the channel *)
(* disconnected.                                                           *)

RenderWorlds == {MirrorRoom(l) : l \in Lights}

\* a ray that hits a mirror and a ray that leaves the room
RenderRays == {Ray(0, 1), Ray(-6, -1)}

Sizes ==
    {s \in (1 .. MaxPixels) \X (1 .. MaxPixels) : s[1] * s[2] <= MaxPixels}

Cameras ==
    UNION {{[h_size |-> s[1], v_size |-> s[2], rays |-> r] :
              r \in [(0 .. s[1] - 1) \X (0 .. s[2] - 1) -> RenderRays]} :
           s \in Sizes}

\* world.color_at(ray, 5) of a task, for each world and ray a task can be
\* given and each draw of Uuids
task_color ==
    [w \in RenderWorlds, ray \in RenderRays, u \in IdDraws |->
        color_at(w, ray, RenderDepth, u)]

\* max of render_multi_threaded
Max == cam.v_size * cam.h_size

InitRender ==
    /\ world \in RenderWorlds
    /\ cam \in Cameras
    /\ canvas = NewCanvas(cam.h_size, cam.v_size)
    /\ submitted = 0
    /\ queue = <<>>
    /\ workers = [w \in 1 .. NumWorkers |-> None]
    /\ chan = <<>>
    /\ received = <<>>
    /\ mainpc = "submit"
    /\ HitUnused /\ ScanUnused /\ EvalUnused /\ CallUnused /\ ImageUnused

\* pool.execute of the task of the next pixel
Submit ==
    /\ mainpc = "submit"
    /\ LET x == Pixel(cam, submitted)[1]
           y == Pixel(cam, submitted)[2]
       IN  queue' = Append(queue, [x |-> x, y |-> y, ray |-> task_ray(cam, x, y)])
    /\ submitted' = submitted + 1
    /\ mainpc' = IF submitted + 1 = Max THEN "recv" ELSE "submit"
    /\ UNCHANGED <<cam, workers, chan, canvas, received>>
    /\ UNCHANGED <<hitVars, scanVars, worldVars, callVars, imageVars>>

\* an idle pool thread takes the oldest job and runs its color_at call
WorkerRun(w) ==
    /\ workers[w] = None
    /\ queue # <<>>
    /\ \E u \in IdDraws :
          LET job == Head(queue)
              color == task_color[world, job.ray, u]
          IN  workers' = [workers EXCEPT ![w] =
                             Some([x |-> job.x, y |-> job.y, color |-> color])]
    /\ queue' = Tail(queue)
    /\ UNCHANGED <<cam, submitted, chan, canvas, received, mainpc>>
    /\ UNCHANGED <<hitVars, scanVars, worldVars, callVars, imageVars>>

\* the task sends its message and ends
WorkerSend(w) ==
    /\ workers[w] # None
    /\ ~workers[w][1].color.panic
    /\ LET job == workers[w][1]
       IN  chan' = Append(chan, message(job.x, job.y, job.color.color))
    /\ workers' = [workers EXCEPT ![w] = None]
    /\ UNCHANGED <<cam, submitted, queue, canvas, received, mainpc>>
    /\ UNCHANGED <<hitVars, scanVars, worldVars, callVars, imageVars>>

\* the task's color_at has panicked: the task ends and nothing is sent
WorkerPanic(w) ==
    /\ workers[w] # None
    /\ workers[w][1].color.panic
    /\ workers' = [workers EXCEPT ![w] = None]
    /\ UNCHANGED <<cam, submitted, queue, chan, canvas, received, mainpc>>
    /\ UNCHANGED <<hitVars, scanVars, worldVars, callVars, imageVars>>

\* one iteration of `for _ in 0..max`: rx.recv() and canvas.write_pixel;
\* after the last one the canvas is returned
Recv ==
    /\ mainpc = "recv"
    /\ chan # <<>>
    /\ LET m == Head(chan)
           cv == write_pixel(canvas, m.x, m.y, m.color)
       IN  /\ canvas' = cv
           /\ received' = Append(received, <<m.x, m.y>>)
           /\ mainpc' = IF cv.panic THEN "panicked"
                        ELSE IF Len(received) + 1 = Max THEN "returned"
                        ELSE "recv"
    /\ chan' = Tail(chan)
    /\ UNCHANGED <<cam, submitted, queue, workers>>
    /\ UNCHANGED <<hitVars, scanVars, worldVars, callVars, imageVars>>

NextRender ==
    \/ Submit
    \/ \E w \in 1 .. NumWorkers : WorkerRun(w)
    \/ \E w \in 1 .. NumWorkers : WorkerSend(w)
    \/ \E w \in 1 .. NumWorkers : WorkerPanic(w)
    \/ Recv

SpecRender == InitRender /\ [][NextRender]_vars

\* the pool runs every thread that has a job, and the caller runs
SpecRenderFair ==
    /\ SpecRender
    /\ WF_vars(Submit) /\ WF_vars(Recv)
    /\ \A w \in 1 .. NumWorkers :
          WF_vars(WorkerRun(w)) /\ WF_vars(WorkerSend(w))
                                 /\ WF_vars(WorkerPanic(w))

----------------------------------------------------------------------------
(* Specification SpecRows: the function render of src/camera.rs.  The      *)
(* calling thread spawns one thread per row, each with a clone of tx, and  *)
(* one more thread that takes tx itself and sends None; then it receives   *)
(* until the channel is empty and every sender is dropped.  A row thread   *)
(* whose color_at panics unwinds and drops its clone of tx.  workers[y] is *)
(* the thread of row y and workers[v_size] the thread that sends None.     *)

\* World::color_at of src/world.rs: the hit is shaded without reflection or
\* refraction, with the unwrap of the light
row_color ==
    [w \in RenderWorlds, ray \in RenderRays |-> color_at(w, ray, 0, NoIds)]

\* Canvas::write_pixel of src/canvas.rs: pixels.get(height) and
\* row.get(width) guard the assignment
get_write_pixel(c, x, y, color) ==
    IF <<x, y>> \in DOMAIN c.pixels
    THEN [c EXCEPT !.pixels[<<x, y>>] = color]
    ELSE c

\* a thread: not spawned, running with x the next pixel of its row, or
\* ended ("done") or unwound ("panicked") with its sender dropped
Thread(pc, x) == [pc |-> pc, x |-> x]

\* the index of the thread that sends None
Sentinel == cam.v_size

\* every sender is dropped
Disconnected ==
    \A t \in DOMAIN workers : workers[t].pc \in {"done", "panicked"}

InitRows ==
    /\ world \in RenderWorlds
    /\ cam \in Cameras
    /\ canvas = NewCanvas(cam.h_size, cam.v_size)
    /\ submitted = 0
    /\ queue = <<>>
    /\ workers = [t \in 0 .. cam.v_size |-> Thread("unspawned", 0)]
    /\ chan = <<>>
    /\ received = <<>>
    /\ mainpc = "spawn"
    /\ HitUnused /\ ScanUnused /\ EvalUnused /\ CallUnused /\ ImageUnused

\* std::thread::spawn of the thread of the next row
SpawnRow ==
    /\ mainpc = "spawn"
    /\ workers' = [workers EXCEPT ![submitted] = Thread("run", 0)]
    /\ submitted' = submitted + 1
    /\ mainpc' = IF submitted + 1 = cam.v_size THEN "sentinel" ELSE "spawn"
    /\ UNCHANGED <<cam, queue, chan, canvas, received>>
    /\ UNCHANGED <<hitVars, scanVars, worldVars, callVars, imageVars>>

\* std::thread::spawn(move || tx.send(None))
SpawnSentinel ==
    /\ mainpc = "sentinel"
    /\ workers' = [workers EXCEPT ![Sentinel] = Thread("run", 0)]
    /\ mainpc' = "recv"
    /\ UNCHANGED <<cam, submitted, queue, chan, canvas, received>>
    /\ UNCHANGED <<hitVars, scanVars, worldVars, callVars, imageVars>>

\* one iteration of `for x in 0..cam_clone.h_size` whose color_at returns
RowSend(y) ==
    /\ y < Sentinel /\ workers[y].pc = "run" /\ workers[y].x < cam.h_size
    /\ LET x == workers[y].x
           color == row_color[world, ray_for_pixel(cam, x, y)]
       IN  /\ ~color.panic
           /\ chan' = Append(chan, Some(message(x, y, color.color)))
    /\ workers' = [workers EXCEPT ![y].x = @ + 1]
    /\ UNCHANGED <<cam, submitted, queue, canvas, received, mainpc>>
    /\ UNCHANGED <<hitVars, scanVars, worldVars, callVars, imageVars>>

\* an iteration whose color_at panics: the thread unwinds
RowPanic(y) ==
    /\ y < Sentinel /\ workers[y].pc = "run" /\ workers[y].x < cam.h_size
    /\ row_color[world, ray_for_pixel(cam, workers[y].x, y)].panic
    /\ workers' = [workers EXCEPT ![y].pc = "panicked"]
    /\ UNCHANGED <<cam, submitted, queue, chan, canvas, received, mainpc>>
    /\ UNCHANGED <<hitVars, scanVars, worldVars, callVars, imageVars>>

\* the row is finished: the thread ends and tx_c is dropped
RowExit(y) ==
    /\ y < Sentinel /\ workers[y].pc = "run" /\ workers[y].x = cam.h_size
    /\ workers' = [workers EXCEPT ![y].pc = "done"]
    /\ UNCHANGED <<cam, submitted, queue, chan, canvas, received, mainpc>>
    /\ UNCHANGED <<hitVars, scanVars, worldVars, callVars, imageVars>>

\* tx.send(None)
SentinelSend ==
    /\ workers[Sentinel] = Thread("run", 0)
    /\ chan' = Append(chan, None)
    /\ workers' = [workers EXCEPT ![Sentinel].x = 1]
    /\ UNCHANGED <<cam, submitted, queue, canvas, received, mainpc>>
    /\ UNCHANGED <<hitVars, scanVars, worldVars, callVars, imageVars>>

\* the closure returns and tx is dropped
SentinelExit ==
    /\ workers[Sentinel] = Thread("run", 1)
    /\ workers' = [workers EXCEPT ![Sentinel].pc = "done"]
    /\ UNCHANGED <<cam, submitted, queue, chan, canvas, received, mainpc>>
    /\ UNCHANGED <<hitVars, scanVars, worldVars, callVars, imageVars>>

\* one iteration of `for rec in rx`: a pixel is written, None is passed over
RecvRow ==
    /\ mainpc = "recv"
    /\ chan # <<>>
    /\ IF Head(chan) = None
       THEN UNCHANGED <<canvas, received>>
       ELSE LET m == Head(chan)[1]
            IN  /\ canvas' = get_write_pixel(canvas, m.x, m.y, m.color)
                /\ received' = Append(received, <<m.x, m.y>>)
    /\ chan' = Tail(chan)
    /\ UNCHANGED <<cam, submitted, queue, workers, mainpc>>
    /\ UNCHANGED <<hitVars, scanVars, worldVars, callVars, imageVars>>

\* the iterator ends: the channel is empty and every sender is dropped; the
\* image is returned
RecvEnd ==
    /\ mainpc = "recv"
    /\ chan = <<>>
    /\ Disconnected
    /\ mainpc' = "returned"
    /\ UNCHANGED <<cam, submitted, queue, workers, chan, canvas, received>>
    /\ UNCHANGED <<hitVars, scanVars, worldVars, callVars, imageVars>>

NextRows ==
    \/ SpawnRow
    \/ SpawnSentinel
    \/ \E y \in 0 .. cam.v_size - 1 : RowSend(y)
    \/ \E y \in 0 .. cam.v_size - 1 : RowPanic(y)
    \/ \E y \in 0 .. cam.v_size - 1 : RowExit(y)
    \/ SentinelSend
    \/ SentinelExit
    \/ RecvRow
    \/ RecvEnd

SpecRows == InitRows /\ [][NextRows]_vars

----------------------------------------------------------------------------
(* Shapes in three dimensions.  A length is an integer number of grid      *)
(* steps, One steps to the f64 1.0; the components of a ray's direction    *)
(* and the entries of the linear part of a transform are plain integers,   *)
(* so a sum of squares of lengths is scaled by One * One.  On the grid     *)
(* f64_eq(a, 0.) and a.abs() < EPSILON hold for a = 0 only.                *)

\* the grid steps in the length 1.0
One == 2

\* the largest coordinate of a ray's origin or of a point, in grid steps
MaxCoord == 3

\* a finite f64
Fin(v) == [k |-> "fin", v |-> v]

\* std::f64::INFINITY
INFINITY == [k |-> "inf", v |-> 1]

\* -INFINITY
NEG_INFINITY == [k |-> "inf", v |-> -1]

\* the f64 NaN, the value of 0. * INFINITY
NAN == [k |-> "nan", v |-> 0]

\* f64 `<`, false when a side is NaN
Lt(a, b) ==
    /\ a.k # "nan" /\ b.k # "nan"
    /\ CASE a.k = "fin" /\ b.k = "fin" -> a.v < b.v
         [] a.k = "inf" /\ b.k = "fin" -> a.v < 0
         [] a.k = "fin" /\ b.k = "inf" -> b.v > 0
         [] a.k = "inf" /\ b.k = "inf" -> a.v < b.v

\* f64 `<=`, false when a side is NaN
Le(a, b) == Lt(a, b) \/ (a.k # "nan" /\ a = b)

\* f64::max: the other operand when one is NaN
f64_max(a, b) ==
    IF a.k = "nan" THEN b
    ELSE IF b.k = "nan" THEN a
    ELSE IF Lt(a, b) THEN b ELSE a

\* f64::min: the other operand when one is NaN
f64_min(a, b) ==
    IF a.k = "nan" THEN b
    ELSE IF b.k = "nan" THEN a
    ELSE IF Lt(b, a) THEN b ELSE a

\* a finite f64 times INFINITY
MulInfinity(n) ==
    IF n > 0 THEN INFINITY ELSE IF n < 0 THEN NEG_INFINITY ELSE NAN

\* f64::abs
Abs(a) == IF a < 0 THEN -a ELSE a

\* math::f64_eq
f64_eq(a, b) == Abs(a - b) < EPSILON

\* Tuple::point
point(x, y, z) == <<x, y, z, 1>>

\* Tuple::direction
vector(x, y, z) == <<x, y, z, 0>>

\* Tuple::is_point
is_point(t) == t[4] = 1

\* Tuple::is_direction
is_vector(t) == t[4] = 0

\* Tuple::dot
dot(a, b) == a[1] * b[1] + a[2] * b[2] + a[3] * b[3] + a[4] * b[4]

\* Add for Tuple
add(a, b) == [i \in 1 .. 4 |-> a[i] + b[i]]

\* Sub for Tuple
sub(a, b) == [i \in 1 .. 4 |-> a[i] - b[i]]

\* Mul<f64> for Tuple
scale(a, s) == [i \in 1 .. 4 |-> a[i] * s]

\* Tuple::magnitude in thousandths of a grid step
magnitude(v) == Sqrt(dot(v, v) * Unit * Unit)

\* Tuple::normalize, its components in thousandths; the zero tuple divides
\* 0. by 0. in every component
normalize(v) ==
    IF magnitude(v) = 0 THEN <<NAN, NAN, NAN, NAN>>
    ELSE [i \in 1 .. 4 |-> Fin((v[i] * Unit * Unit) \div magnitude(v))]

\* Ray::position
position3(ray, t) == add(ray.origin, scale(ray.direction, t))

----------------------------------------------------------------------------
(* Matrices (src/src/math/matrix.rs): the n * n entries in row order *)

\* M4::identity
identity == <<1, 0, 0, 0,  0, 1, 0, 0,  0, 0, 1, 0,  0, 0, 0, 1>>

\* M4::get, M3::get, M2::get with rows and columns counted from 0
get(m, n, row, column) == m[row * n + column + 1]

\* M4::set
set(m, value, row, col) == [m EXCEPT ![row * 4 + col + 1] = value]

\* M4::transpose
transpose(m) ==
    [i \in 1 .. 16 |-> get(m, 4, (i - 1) % 4, (i - 1) \div 4)]

\* M4::submatrix, M3::submatrix: the matrix without a row and a column
submatrix(m, n, row, col) ==
    [i \in 1 .. (n - 1) * (n - 1) |->
        LET r == (i - 1) \div (n - 1)
            c == (i - 1) % (n - 1)
        IN  get(m, n, IF r < row THEN r ELSE r + 1,
                      IF c < col THEN c ELSE c + 1)]

RECURSIVE determinant(_, _)
RECURSIVE minor(_, _, _, _)
RECURSIVE cofactor(_, _, _, _)
\* Matrix::cofactor
cofactor(m, n, row, col) ==
    IF (row + col) % 2 = 1 THEN -minor(m, n, row, col)
    ELSE minor(m, n, row, col)

\* Matrix::minor
minor(m, n, row, col) == determinant(submatrix(m, n, row, col), n - 1)

RECURSIVE SumRow(_, _, _)
\* the loop of M4::determinant and M3::determinant from column c on
SumRow(m, n, c) ==
    IF c = n THEN 0
    ELSE get(m, n, 0, c) * cofactor(m, n, 0, c) + SumRow(m, n, c + 1)

\* M4::determinant, M3::determinant, M2::determinant
determinant(m, n) ==
    IF n = 2 THEN m[1] * m[4] - m[2] * m[3] ELSE SumRow(m, n, 0)

\* M4::is_invertible
is_invertible(m) == determinant(m, 4) # 0

\* M4::inverse; the division is exact for a determinant of 1 or -1
inverse(m) ==
    IF ~is_invertible(m) THEN None
    ELSE Some([i \in 1 .. 16 |->
                  cofactor(m, 4, (i - 1) % 4, (i - 1) \div 4)
                      \div determinant(m, 4)])

\* Mul<Tuple> for M4
mul_by_tuple(m, t) ==
    [r \in 1 .. 4 |->
        dot(<<get(m, 4, r - 1, 0), get(m, 4, r - 1, 1),
              get(m, 4, r - 1, 2), get(m, 4, r - 1, 3)>>, t)]

\* transformation::translation
translation(x, y, z) == set(set(set(identity, x, 0, 3), y, 1, 3), z, 2, 3)

\* transformation::scaling
scaling(x, y, z) == set(set(set(identity, x, 0, 0), y, 1, 1), z, 2, 2)

\* transformation::rotation_y for a quarter turn: cos = 0 and sin = 1
rotation_y_quarter ==
    set(set(set(set(identity, 0, 0, 0), 1, 0, 2), -1, 2, 0), 0, 2, 2)

\* transformation::shearing
shearing(xy, xz, yx, yz, zx, zy) ==
    set(set(set(set(set(set(identity, xy, 0, 1), xz, 0, 2), yx, 1, 0),
                yz, 1, 2), zx, 2, 0), zy, 2, 1)

\* Ray::transform
ray_transform(ray, m) ==
    Ray(mul_by_tuple(m, ray.origin), mul_by_tuple(m, ray.direction))

\* the transforms given to the shapes: those with an inverse (determinant 1 or -1)
Invertible ==
    {identity, translation(One, 0, -One), scaling(1, -1, 1),
     rotation_y_quarter, shearing(1, 0, 0, 0, 0, 0)}

\* transforms without an inverse (determinant 0)
Singular ==
    {scaling(1, 0, 1), scaling(0, 0, 0), shearing(1, 0, 1, 0, 0, 0)}

Transforms == Invertible \cup Singular

\* M4::inverse of each transform a shape is given, computed once
inverses == [m \in Transforms |-> inverse(m)]

----------------------------------------------------------------------------
(* The shapes: Sphere (src/src/sphere.rs), Plane (src/src/plane.rs), Cube  *)
(* (src/src/cube.rs), Cylinder and Cone (src/src/primitives).  A shape is  *)
(* its kind, its transform and, for Cylinder and Cone, min, max, closed.   *)

\* ShapeProps::default with the fields of the shape around it
NewShape(kind) ==
    [kind |-> kind, transform |-> identity,
     min |-> NEG_INFINITY, max |-> INFINITY, closed |-> FALSE]

\* Cylinder::with_min_max
with_min_max(min, max) ==
    [NewShape("cylinder") EXCEPT !.min = Fin(min), !.max = Fin(max)]

\* Cylinder::close
close(s) == [s EXCEPT !.closed = TRUE]

\* Sphere::transform, the setter of ShapeProps' transform
set_transform(s, m) == [s EXCEPT !.transform = m]

\* the outcome of a call: what it returned, or the panic that aborts it
Outcome(kind, val) == [kind |-> kind, val |-> val]

\* the panic of Option::unwrap on None and of todo!()
Aborted == Outcome("panic", <<>>)

\* an Option<Intersections> as an outcome
Intersected(res) ==
    IF res = None THEN Outcome("none", <<>>) ELSE Outcome("some", res[1])

\* Sphere::intersect with the two roots in the opposite order
sphere_local_intersect_swapped(ray) ==
    LET sphere_to_ray == sub(ray.origin, point(0, 0, 0))
        a == dot(ray.direction, ray.direction)
        b == 2 * dot(ray.direction, sphere_to_ray)
        c == dot(sphere_to_ray, sphere_to_ray) - One * One
        discriminant == b * b - 4 * a * c
    IN  IF discriminant < 0 THEN None
        ELSE LET t1 == (-b + Sqrt(discriminant)) \div (2 * a)
                 t2 == (-b - Sqrt(discriminant)) \div (2 * a)
             IN  Some(<<Fin(t1), Fin(t2)>>)

\* the body of Sphere::intersect after the ray is in object space
sphere_local_intersect(ray) ==
    LET sphere_to_ray == sub(ray.origin, point(0, 0, 0))
        a == dot(ray.direction, ray.direction)
        b == 2 * dot(ray.direction, sphere_to_ray)
        c == dot(sphere_to_ray, sphere_to_ray) - One * One
        discriminant == b * b - 4 * a * c
    IN  IF discriminant < 0 THEN None
        ELSE LET t1 == (-b - Sqrt(discriminant)) \div (2 * a)
                 t2 == (-b + Sqrt(discriminant)) \div (2 * a)
             IN  Some(<<Fin(t1), Fin(t2)>>)

\* Sphere::intersect: a transform without an inverse leaves the function
\* through `?` with None
sphere_intersect(s, ray) ==
    IF inverses[s.transform] = None THEN Outcome("none", <<>>)
    ELSE Intersected(sphere_local_intersect(
                         ray_transform(ray, inverses[s.transform][1])))

\* Sphere::normal_at
sphere_normal_at(s, p) ==
    IF is_vector(p) THEN Outcome("err", <<"NormalWithVector">>)
    ELSE IF inverses[s.transform] = None
    THEN Outcome("err", <<"NormalFailedInverse">>)
    ELSE LET inverse_transformation == inverses[s.transform][1]
             object_point == mul_by_tuple(inverse_transformation, p)
             object_normal == sub(object_point, point(0, 0, 0))
             world_normal == mul_by_tuple(transpose(inverse_transformation),
                                          object_normal)
         IN  Outcome("normal",
                     normalize([world_normal EXCEPT ![4] = 0]))

\* Plane::local_normal_at
plane_local_normal_at(p) == vector(0, 1, 0)

\* Plane::local_intersect
plane_local_intersect(ray) ==
    IF Abs(ray.direction[2]) < EPSILON THEN None
    ELSE Some(<<Fin((-ray.origin[2]) \div ray.direction[2])>>)

\* Cube::check_axis
check_axis(origin, direction) ==
    LET t_min_numerator == -One - origin
        t_max_numerator == One - origin
        t_min == IF Abs(direction) >= EPSILON
                 THEN Fin(t_min_numerator \div direction)
                 ELSE MulInfinity(t_min_numerator)
        t_max == IF Abs(direction) >= EPSILON
                 THEN Fin(t_max_numerator \div direction)
                 ELSE MulInfinity(t_max_numerator)
    IN  IF Lt(t_max, t_min) THEN <<t_max, t_min>> ELSE <<t_min, t_max>>

\* Cube::local_normal_at
cube_local_normal_at(p) ==
    LET max_c == f64_max(Fin(Abs(p[1])),
                         f64_max(Fin(Abs(p[2])), Fin(Abs(p[3])))).v
    IN  IF f64_eq(max_c, Abs(p[1])) THEN vector(p[1], 0, 0)
        ELSE IF f64_eq(max_c, Abs(p[2])) THEN vector(0, p[2], 0)
        ELSE vector(0, 0, p[3])

\* Cube::local_intersect that also misses when t_min = t_max
cube_local_intersect_strict(ray) ==
    LET x == check_axis(ray.origin[1], ray.direction[1])
        y == check_axis(ray.origin[2], ray.direction[2])
        z == check_axis(ray.origin[3], ray.direction[3])
        t_min == f64_max(x[1], f64_max(y[1], z[1]))
        t_max == f64_min(x[2], f64_min(y[2], z[2]))
    IN  IF ~Lt(t_min, t_max) THEN None ELSE Some(<<t_min, t_max>>)

\* Cube::local_intersect
cube_local_intersect(ray) ==
    LET x == check_axis(ray.origin[1], ray.direction[1])
        y == check_axis(ray.origin[2], ray.direction[2])
        z == check_axis(ray.origin[3], ray.direction[3])
        t_min == f64_max(x[1], f64_max(y[1], z[1]))
        t_max == f64_min(x[2], f64_min(y[2], z[2]))
    IN  IF Lt(t_max, t_min) THEN None ELSE Some(<<t_min, t_max>>)

\* min_max of cylinder.rs and cone.rs
min_max(a, b) == IF a <= b THEN <<a, b>> ELSE <<b, a>>

\* check_cap of cylinder.rs; a t that is not finite gives an x or a z
\* that is infinite or NaN, and the comparison is false
check_cap(ray, t) ==
    /\ t.k = "fin"
    /\ LET x == ray.origin[1] + t.v * ray.direction[1]
           z == ray.origin[3] + t.v * ray.direction[3]
       IN  x * x + z * z <= One * One

\* (bound - ray.origin.y) / ray.direction.y of Cylinder::intersect_caps
cap_t(bound, ray) ==
    IF bound.k = "fin"
    THEN Fin((bound.v - ray.origin[2]) \div ray.direction[2])
    ELSE MulInfinity(bound.v * ray.direction[2])

\* Cylinder::intersect_caps
intersect_caps(s, ray) ==
    IF ~s.closed \/ f64_eq(ray.direction[2], 0) THEN <<>>
    ELSE (IF check_cap(ray, cap_t(s.min, ray))
          THEN <<cap_t(s.min, ray)>> ELSE <<>>)
         \o (IF check_cap(ray, cap_t(s.max, ray))
             THEN <<cap_t(s.max, ray)>> ELSE <<>>)

\* the side wall that also accepts a root whose y is min or max
wall_inclusive(s, ray, a, b, c) ==
    LET disc == b * b - 4 * a * c
        t == min_max((-b - Sqrt(disc)) \div (2 * a),
                     (-b + Sqrt(disc)) \div (2 * a))
        y0 == ray.origin[2] + t[1] * ray.direction[2]
        y1 == ray.origin[2] + t[2] * ray.direction[2]
    IN  (IF Le(s.min, Fin(y0)) /\ Le(Fin(y0), s.max)
         THEN <<Fin(t[1])>> ELSE <<>>)
        \o (IF Le(s.min, Fin(y1)) /\ Le(Fin(y1), s.max)
            THEN <<Fin(t[2])>> ELSE <<>>)

\* the side wall of Cylinder::local_intersect and Cone::local_intersect:
\* the roots whose y is strictly between min and max
wall(s, ray, a, b, c) ==
    LET disc == b * b - 4 * a * c
        t == min_max((-b - Sqrt(disc)) \div (2 * a),
                     (-b + Sqrt(disc)) \div (2 * a))
        y0 == ray.origin[2] + t[1] * ray.direction[2]
        y1 == ray.origin[2] + t[2] * ray.direction[2]
    IN  (IF Lt(s.min, Fin(y0)) /\ Lt(Fin(y0), s.max)
         THEN <<Fin(t[1])>> ELSE <<>>)
        \o (IF Lt(s.min, Fin(y1)) /\ Lt(Fin(y1), s.max)
            THEN <<Fin(t[2])>> ELSE <<>>)

\* Cylinder::local_normal_at
cylinder_local_normal_at(s, p) ==
    LET dist == p[1] * p[1] + p[3] * p[3]
    IN  IF dist < One * One /\ s.max.k = "fin" /\ p[2] >= s.max.v - EPSILON
        THEN vector(0, 1, 0)
        ELSE IF dist < One * One /\ s.min.k = "fin"
                                 /\ p[2] <= s.min.v + EPSILON
        THEN vector(0, -1, 0)
        ELSE vector(p[1], 0, p[3])

\* Cylinder::local_intersect
cylinder_local_intersect(s, ray) ==
    LET a == ray.direction[1] * ray.direction[1]
                 + ray.direction[3] * ray.direction[3]
        b == 2 * ray.origin[1] * ray.direction[1]
                 + 2 * ray.origin[3] * ray.direction[3]
        c == ray.origin[1] * ray.origin[1]
                 + ray.origin[3] * ray.origin[3] - One * One
    IN  IF f64_eq(a, 0) THEN Some(intersect_caps(s, ray))
        ELSE IF b * b - 4 * a * c < 0 THEN None
        ELSE Some(wall(s, ray, a, b, c) \o intersect_caps(s, ray))

\* Cone::local_intersect that misses whenever a ~ 0
cone_local_intersect_parallel_misses(s, ray) ==
    LET a == ray.direction[1] * ray.direction[1]
                 - ray.direction[2] * ray.direction[2]
                 + ray.direction[3] * ray.direction[3]
        b == 2 * ray.origin[1] * ray.direction[1]
                 - 2 * ray.origin[2] * ray.direction[2]
                 + 2 * ray.origin[3] * ray.direction[3]
        c == ray.origin[1] * ray.origin[1]
                 - ray.origin[2] * ray.origin[2]
                 + ray.origin[3] * ray.origin[3]
    IN  IF f64_eq(a, 0) THEN None
        ELSE IF b * b - 4 * a * c < 0 THEN None
        ELSE Some(wall(s, ray, a, b, c))

\* Cone::local_intersect
cone_local_intersect(s, ray) ==
    LET a == ray.direction[1] * ray.direction[1]
                 - ray.direction[2] * ray.direction[2]
                 + ray.direction[3] * ray.direction[3]
        b == 2 * ray.origin[1] * ray.direction[1]
                 - 2 * ray.origin[2] * ray.direction[2]
                 + 2 * ray.origin[3] * ray.direction[3]
        c == ray.origin[1] * ray.origin[1]
                 - ray.origin[2] * ray.origin[2]
                 + ray.origin[3] * ray.origin[3]
    IN  IF f64_eq(a, 0)
        THEN IF f64_eq(b, 0) THEN None
             ELSE Some(<<Fin((-c) \div (2 * b))>>)
        ELSE IF b * b - 4 * a * c < 0 THEN None
        ELSE Some(wall(s, ray, a, b, c))

\* Shape::local_intersect of the shape's kind
local_intersect(s, ray) ==
    CASE s.kind = "sphere"   -> sphere_local_intersect(ray)
      [] s.kind = "plane"    -> plane_local_intersect(ray)
      [] s.kind = "cube"     -> cube_local_intersect(ray)
      [] s.kind = "cylinder" -> cylinder_local_intersect(s, ray)
      [] s.kind = "cone"     -> cone_local_intersect(s, ray)

\* Shape::local_normal_at of the shape's kind; Cone's is todo!()
local_normal_at(s, p) ==
    CASE s.kind = "sphere"   ->
            Outcome("normal", sub(p, point(0, 0, 0)))
      [] s.kind = "plane"    -> Outcome("normal", plane_local_normal_at(p))
      [] s.kind = "cube"     -> Outcome("normal", cube_local_normal_at(p))
      [] s.kind = "cylinder" ->
            Outcome("normal", cylinder_local_normal_at(s, p))
      [] s.kind = "cone"     -> Aborted

\* Shape::intersect: Option::unwrap panics on a transform without inverse
shape_intersect(s, ray) ==
    IF inverses[s.transform] = None THEN Aborted
    ELSE Intersected(local_intersect(
                         s, ray_transform(ray, inverses[s.transform][1])))

\* Shape::normal_at
shape_normal_at(s, p) ==
    IF inverses[s.transform] = None THEN Aborted
    ELSE LET inverse_transform == inverses[s.transform][1]
             local_point == mul_by_tuple(inverse_transform, p)
             local_normal == local_normal_at(s, local_point)
         IN  IF local_normal.kind = "panic" THEN Aborted
             ELSE LET world_normal ==
                          mul_by_tuple(transpose(inverse_transform),
                                       local_normal.val)
                  IN  Outcome("normal",
                              normalize([world_normal EXCEPT ![4] = 0]))

----------------------------------------------------------------------------
(* Intersection::prepare_computation up to the normal, and RingPattern *)

\* Tuple::dot of a normalized tuple with a tuple of integers; false when
\* the normalized tuple is NaN (a comparison with NaN is false)
negative_dot(n, v) ==
    /\ \A i \in 1 .. 4 : n[i].k = "fin"
    /\ n[1].v * v[1] + n[2].v * v[2] + n[3].v * v[3] + n[4].v * v[4] < 0

\* Neg for Tuple on a normalized tuple
neg(n) == [i \in 1 .. 4 |-> [n[i] EXCEPT !.v = -n[i].v]]

\* Intersection::prepare_computation for the intersection at t: the normal
\* it stores, or the panic of Shape::normal_at
prepare_computation_normal(s, ray, t) ==
    LET p == position3(ray, t)
        eye_v == scale(ray.direction, -1)
        normal_v == shape_normal_at(s, p)
    IN  IF normal_v.kind = "panic" THEN Aborted
        ELSE IF negative_dot(normal_v.val, eye_v)
        THEN Outcome("normal", neg(normal_v.val))
        ELSE normal_v

\* a flag that is set when the dot product is not positive
is_inside_or_grazing(s, ray, t) ==
    ~negative_dot(neg(shape_normal_at(s, position3(ray, t)).val),
                  scale(ray.direction, -1))

\* Intersection::prepare_computation: the flag inside
is_inside(s, ray, t) ==
    negative_dot(shape_normal_at(s, position3(ray, t)).val,
                 scale(ray.direction, -1))

\* Intersection::prepare_computation for the intersection at t: eye_v,
\* normal_v and inside of the Computation, or the panic of Shape::normal_at
prepare_computation_frame(s, ray, t) ==
    IF prepare_computation_normal(s, ray, t).kind = "panic" THEN Aborted
    ELSE Outcome("normal",
                 [eye_v |-> scale(ray.direction, -1),
                  normal_v |-> prepare_computation_normal(s, ray, t).val,
                  inside |-> is_inside(s, ray, t)])

\* RingPattern::new
RingPattern(a, b) == [a |-> a, b |-> b]

\* RingPattern::pattern_at: `point.x.powi(2) + point.z.powi(2).sqrt()
\* .floor() % 2.` is x^2 + (floor(|z|) % 2), a sum scaled by One * One
ring_pattern_at(self, p) ==
    IF f64_eq(p[1] * p[1]
                  + ((Sqrt(p[3] * p[3]) \div One) % 2) * One * One, 0)
    THEN Outcome("color", <<self.a>>)
    ELSE Outcome("color", <<self.b>>)

----------------------------------------------------------------------------
(* Specification SpecCall: one call of a function of a shape, drawn with   *)
(* its inputs by Init, runs and leaves its outcome in out.                 *)

\* the coordinates of the origins and points
Coords == -MaxCoord .. MaxCoord

\* the points given to normal_at and the origins of the rays
Points == {point(x, y, z) : x, y, z \in Coords}

\* the directions of the rays: every non-zero vector of the grid's cube
Directions ==
    {vector(x, y, z) : x, y, z \in -1 .. 1} \ {vector(0, 0, 0)}

\* the rays given to local_intersect
LocalRays == {Ray(o, d) : o \in Points, d \in Directions}

\* the rays and points given to the functions that apply the transform
WorldPoints == {p \in Points : p[1] \in {0, One} /\ p[2] \in {0, One}}

WorldRays == {Ray(o, d) : o \in WorldPoints, d \in Directions}

\* the shapes behind the Shape trait, untransformed
LocalShapes ==
    {NewShape("plane"), NewShape("cube"), NewShape("cone"),
     NewShape("cylinder"), close(NewShape("cylinder")),
     with_min_max(-One, One), close(with_min_max(-One, One)),
     close(with_min_max(0, One))}

\* the outcome of a call that has not run
NotRun == Outcome("pending", <<>>)

InitCall ==
    /\ HitUnused /\ ScanUnused /\ WorldUnused /\ RenderUnused /\ ImageUnused
    /\ out = NotRun
    /\ \/ \E m \in Transforms, ray \in WorldRays :
             call = [op |-> "Sphere::intersect",
                     self |-> set_transform(NewShape("sphere"), m),
                     ray |-> ray]
       \/ \E ray \in LocalRays :
             call = [op |-> "Sphere::intersect",
                     self |-> NewShape("sphere"), ray |-> ray]
       \/ \E m \in Transforms, p \in WorldPoints :
             call = [op |-> "Sphere::normal_at",
                     self |-> set_transform(NewShape("sphere"), m),
                     point |-> p]
       \/ \E s \in LocalShapes, m \in Transforms, ray \in WorldRays :
             call = [op |-> "Shape::intersect",
                     self |-> set_transform(s, m), ray |-> ray]
       \/ \E s \in LocalShapes, m \in Transforms, p \in WorldPoints :
             call = [op |-> "Shape::normal_at",
                     self |-> set_transform(s, m), point |-> p]
       \/ \E s \in LocalShapes, ray \in LocalRays :
             call = [op |-> "Shape::local_intersect",
                     self |-> s, ray |-> ray]
       \/ \E s \in LocalShapes \cup {NewShape("sphere")}, p \in Points :
             call = [op |-> "Shape::local_normal_at",
                     self |-> s, point |-> p]
       \/ \E s \in LocalShapes \cup {NewShape("sphere")}, ray \in WorldRays :
             \E k \in 1 .. Len(Intersected(local_intersect(s, ray)).val) :
                 call = [op |-> "Intersection::prepare_computation",
                         self |-> s, ray |-> ray,
                         t |-> local_intersect(s, ray)[1][k].v]
       \/ \E p \in Points :
             call = [op |-> "RingPattern::pattern_at",
                     self |-> RingPattern(Unit, Black), point |-> p]

\* what every call leaves alone
CallFrame ==
    /\ out = NotRun
    /\ UNCHANGED <<call, hitVars, scanVars, worldVars, renderVars, imageVars>>

\* Sphere::intersect
CallSphereIntersect ==
    /\ call.op = "Sphere::intersect" /\ CallFrame
    /\ out' = sphere_intersect(call.self, call.ray)

\* Sphere::normal_at
CallSphereNormalAt ==
    /\ call.op = "Sphere::normal_at" /\ CallFrame
    /\ out' = sphere_normal_at(call.self, call.point)

\* Shape::intersect
CallIntersect ==
    /\ call.op = "Shape::intersect" /\ CallFrame
    /\ out' = shape_intersect(call.self, call.ray)

\* Shape::normal_at
CallNormalAt ==
    /\ call.op = "Shape::normal_at" /\ CallFrame
    /\ out' = shape_normal_at(call.self, call.point)

\* Shape::local_intersect
CallLocalIntersect ==
    /\ call.op = "Shape::local_intersect" /\ CallFrame
    /\ out' = Intersected(local_intersect(call.self, call.ray))

\* Shape::local_normal_at
CallLocalNormalAt ==
    /\ call.op = "Shape::local_normal_at" /\ CallFrame
    /\ out' = local_normal_at(call.self, call.point)

\* Intersection::prepare_computation
CallPrepareComputation ==
    /\ call.op = "Intersection::prepare_computation" /\ CallFrame
    /\ out' = prepare_computation_frame(call.self, call.ray, call.t)

\* RingPattern::pattern_at
CallPatternAt ==
    /\ call.op = "RingPattern::pattern_at" /\ CallFrame
    /\ out' = ring_pattern_at(call.self, call.point)

NextCall ==
    \/ CallSphereIntersect
    \/ CallSphereNormalAt
    \/ CallIntersect
    \/ CallNormalAt
    \/ CallLocalIntersect
    \/ CallLocalNormalAt
    \/ CallPrepareComputation
    \/ CallPatternAt

SpecCall == InitCall /\ [][NextCall]_vars

----------------------------------------------------------------------------
(* f64 arithmetic to six decimal places, for the rendered colours: a value *)
(* is an integer number of millionths, and every product, quotient and     *)
(* square root is cut to a whole number of millionths.                     *)

\* the f64 1.0 in millionths
Micro == 1000000

\* `let v = ...;` of a value used more than once: F of the value v, which
\* is computed once
Bind(v, F(_)) == F(v)

\* the product of two values that are not negative, by halves of three
\* decimal places each, so that no intermediate leaves 32 bits
MicroMulAbs(a, b) ==
    LET ah == a \div Unit
        al == a % Unit
        bh == b \div Unit
        bl == b % Unit
    IN  ah * bh + (ah * bl + al * bh + (al * bl) \div Unit) \div Unit

\* f64 `*`
MicroMul(a, b) ==
    IF (a < 0) # (b < 0) THEN -MicroMulAbs(Abs(a), Abs(b))
    ELSE MicroMulAbs(Abs(a), Abs(b))

RECURSIVE MicroDigits(_, _, _)
\* the first n decimal places of r / b, for 0 <= r < b
MicroDigits(r, b, n) ==
    IF n = 0 THEN 0
    ELSE ((r * 10) \div b) * 10 ^ (n - 1)
             + MicroDigits((r * 10) % b, b, n - 1)

\* the quotient of a value that is not negative and a positive one
MicroDivAbs(a, b) == (a \div b) * Micro + MicroDigits(a % b, b, 6)

\* f64 `/` by a value that is not zero
MicroDiv(a, b) ==
    IF (a < 0) # (b < 0) THEN -MicroDivAbs(Abs(a), Abs(b))
    ELSE MicroDivAbs(Abs(a), Abs(b))

RECURSIVE MicroSqrtIn(_, _, _)
MicroSqrtIn(x, lo, hi) ==
    IF lo >= hi THEN lo
    ELSE LET mid == (lo + hi + 1) \div 2 IN
         IF MicroMul(mid, mid) <= x THEN MicroSqrtIn(x, mid, hi)
         ELSE MicroSqrtIn(x, lo, mid - 1)

\* f64::sqrt: the largest r whose square, cut to millionths, is at most x
\* (r stays below 46.0, whose square fits 32 bits)
MicroSqrt(x) == MicroSqrtIn(x, 0, 46 * Micro)

RECURSIVE MicroPow(_, _)
\* f64::powf for an exponent that is a whole number, by repeated squaring
MicroPow(x, n) ==
    IF n = 0 THEN Micro
    ELSE IF n % 2 = 1 THEN MicroMul(x, MicroPow(x, n - 1))
    ELSE MicroPow(MicroMul(x, x), n \div 2)

\* Tuple::new from whole numbers
MicroTuple(x, y, z, w) == <<x * Micro, y * Micro, z * Micro, w * Micro>>

\* Tuple::dot
MicroDot(a, b) ==
    MicroMul(a[1], b[1]) + MicroMul(a[2], b[2])
        + MicroMul(a[3], b[3]) + MicroMul(a[4], b[4])

\* Mul<f64> for Tuple
MicroScale(a, s) == [i \in 1 .. 4 |-> MicroMul(a[i], s)]

\* Tuple::magnitude
MicroMagnitude(v) == MicroSqrt(MicroDot(v, v))

\* Tuple::normalize of a tuple that is not zero
MicroNormalize(v) ==
    Bind(MicroMagnitude(v), LAMBDA m : [i \in 1 .. 4 |-> MicroDiv(v[i], m)])

\* Tuple::cross
MicroCross(a, b) ==
    <<MicroMul(a[2], b[3]) - MicroMul(a[3], b[2]),
      MicroMul(a[3], b[1]) - MicroMul(a[1], b[3]),
      MicroMul(a[1], b[2]) - MicroMul(a[2], b[1]), 0>>

\* Tuple::reflect
MicroReflect(v, normal) ==
    sub(v, MicroScale(MicroScale(normal, 2 * Micro), MicroDot(v, normal)))

\* M4::identity
MicroIdentity == [i \in 1 .. 16 |-> identity[i] * Micro]

RECURSIVE MicroDeterminant(_, _)
\* Matrix::cofactor
MicroCofactor(m, n, row, col) ==
    IF (row + col) % 2 = 1
    THEN -MicroDeterminant(submatrix(m, n, row, col), n - 1)
    ELSE MicroDeterminant(submatrix(m, n, row, col), n - 1)

RECURSIVE MicroSumRow(_, _, _)
\* the loop of M4::determinant and M3::determinant from column c on
MicroSumRow(m, n, c) ==
    IF c = n THEN 0
    ELSE MicroMul(get(m, n, 0, c), MicroCofactor(m, n, 0, c))
             + MicroSumRow(m, n, c + 1)

\* M4::determinant, M3::determinant, M2::determinant
MicroDeterminant(m, n) ==
    IF n = 2 THEN MicroMul(m[1], m[4]) - MicroMul(m[2], m[3])
    ELSE MicroSumRow(m, n, 0)

\* M4::inverse
MicroInverse(m) ==
    Bind(MicroDeterminant(m, 4), LAMBDA d :
        IF d = 0 THEN None
        ELSE Some([i \in 1 .. 16 |->
                 MicroDiv(MicroCofactor(m, 4, (i - 1) % 4, (i - 1) \div 4),
                          d)]))

\* Mul for M4
MicroMulM4(m, rhs) ==
    [i \in 1 .. 16 |->
        LET r == (i - 1) \div 4
            c == (i - 1) % 4
        IN  MicroMul(get(m, 4, r, 0), get(rhs, 4, 0, c))
                + MicroMul(get(m, 4, r, 1), get(rhs, 4, 1, c))
                + MicroMul(get(m, 4, r, 2), get(rhs, 4, 2, c))
                + MicroMul(get(m, 4, r, 3), get(rhs, 4, 3, c))]

\* Mul<Tuple> for M4
MicroMulTuple(m, t) ==
    [r \in 1 .. 4 |->
        MicroDot(<<get(m, 4, r - 1, 0), get(m, 4, r - 1, 1),
                   get(m, 4, r - 1, 2), get(m, 4, r - 1, 3)>>, t)]

\* transformation::translation
MicroTranslation(x, y, z) ==
    set(set(set(MicroIdentity, x, 0, 3), y, 1, 3), z, 2, 3)

\* transformation::scaling
MicroScaling(x, y, z) ==
    set(set(set(MicroIdentity, x, 0, 0), y, 1, 1), z, 2, 2)

\* transformation::view_transform
view_transform(from, to, up) ==
    Bind(MicroNormalize(sub(to, from)), LAMBDA forward_v :
    Bind(MicroCross(forward_v, MicroNormalize(up)), LAMBDA left_v :
    Bind(MicroCross(left_v, forward_v), LAMBDA true_up :
        MicroMulM4([MicroIdentity EXCEPT
                       ![1] = left_v[1], ![2] = left_v[2], ![3] = left_v[3],
                       ![5] = true_up[1], ![6] = true_up[2],
                       ![7] = true_up[3],
                       ![9] = -forward_v[1], ![10] = -forward_v[2],
                       ![11] = -forward_v[3]],
                   MicroTranslation(-from[1], -from[2], -from[3])))))

----------------------------------------------------------------------------
(* The renderer on the micro scale: Camera::_render of a world of spheres, *)
(* every f64 a number of millionths.  Colors are <<red, green, blue>>.     *)

\* math::EPSILON on the micro scale
MicroEpsilon == 10

\* Color::black
MicroBlack == <<0, 0, 0>>

\* Add for Color
ColorAdd(a, b) == [i \in 1 .. 3 |-> a[i] + b[i]]

\* Mul for Color
ColorMul(a, b) == [i \in 1 .. 3 |-> MicroMul(a[i], b[i])]

\* Mul<f64> for Color
ColorScale(a, s) == [i \in 1 .. 3 |-> MicroMul(a[i], s)]

\* PartialEq for Color: f64_eq of each channel
ColorEq(a, b) == \A i \in 1 .. 3 : Abs(a[i] - b[i]) < MicroEpsilon

\* Neg for Tuple
MicroNeg(v) == [i \in 1 .. 4 |-> -v[i]]

\* Material::new: the default material; refractive_index in thousandths
MicroMaterial ==
    [color |-> <<Micro, Micro, Micro>>, ambient |-> 100000,
     diffuse |-> 900000, specular |-> 900000, shininess |-> 200,
     reflective |-> 0, transparency |-> 0, refractive_index |-> Unit]

\* a sphere placed in a world: ShapeProps {id, transform, material}
MicroSphere(id, transform, material) ==
    [id |-> id, transform |-> transform, material |-> material]

\* Ray::transform
MicroRayTransform(ray, m) ==
    Ray(MicroMulTuple(m, ray.origin), MicroMulTuple(m, ray.direction))

\* Ray::position
MicroPosition(ray, t) == add(ray.origin, MicroScale(ray.direction, t))

\* the sphere's local_intersect: the two roots of the quadratic, t1 first
MicroSphereLocalIntersect(ray) ==
    Bind(sub(ray.origin, MicroTuple(0, 0, 0, 1)), LAMBDA sphere_to_ray :
    Bind(MicroDot(ray.direction, ray.direction), LAMBDA a :
    Bind(2 * MicroDot(ray.direction, sphere_to_ray), LAMBDA b :
    Bind(MicroDot(sphere_to_ray, sphere_to_ray) - Micro, LAMBDA c :
    Bind(MicroMul(b, b) - 4 * MicroMul(a, c), LAMBDA discriminant :
        IF discriminant < 0 THEN None
        ELSE Bind(MicroSqrt(discriminant), LAMBDA root :
                 Some(<<MicroDiv(-b - root, 2 * a),
                        MicroDiv(-b + root, 2 * a)>>)))))))

\* the sphere's local_normal_at
MicroSphereLocalNormalAt(p) == sub(p, MicroTuple(0, 0, 0, 1))

\* the transforms of the rendered objects and camera
MicroTransforms ==
    {MicroIdentity, MicroScaling(500000, 500000, 500000),
     view_transform(MicroTuple(0, 0, -5, 1), MicroTuple(0, 0, 0, 1),
                    MicroTuple(0, 1, 0, 0))}

\* M4::inverse of each of them
MicroInverses == [m \in MicroTransforms |-> MicroInverse(m)]

\* Shape::intersect of the k-th object; unwrap of the inverse: every
\* transform of MicroTransforms has one
MicroShapeIntersect(k, o, ray) ==
    Bind(MicroSphereLocalIntersect(
             MicroRayTransform(ray, MicroInverses[o.transform][1])),
         LAMBDA r :
             IF r = None THEN None
             ELSE Some([j \in 1 .. 2 |-> [t |-> r[1][j], object |-> k]]))

\* Shape::normal_at
MicroNormalAt(o, p) ==
    Bind(MicroInverses[o.transform][1], LAMBDA inverse_transform :
    Bind(MicroSphereLocalNormalAt(MicroMulTuple(inverse_transform, p)),
         LAMBDA local_normal :
    Bind(MicroMulTuple(transpose(inverse_transform), local_normal),
         LAMBDA world_normal :
        MicroNormalize([world_normal EXCEPT ![4] = 0]))))

RECURSIVE MicroIntersectFrom(_, _, _, _)
MicroIntersectFrom(w, ray, k, acc) ==
    IF k > Len(w.objects) THEN acc
    ELSE Bind(MicroShapeIntersect(k, w.objects[k], ray), LAMBDA r :
         IF r = None THEN MicroIntersectFrom(w, ray, k + 1, acc)
         ELSE MicroIntersectFrom(w, ray, k + 1,
                 merge(acc, [j \in 1 .. Len(r[1]) |->
                     Intersection(r[1][j].t, r[1][j].object, Len(acc) + j)])))

\* World::intersect; the Uuid of an Intersection is its place in the merge
MicroIntersect(w, ray) == sort(MicroIntersectFrom(w, ray, 1, <<>>))

\* Intersection::prepare_computation; n1 and n2 in thousandths
MicroPrepareComputation(w, self, ray, its) ==
    Bind(MicroPosition(ray, self.t), LAMBDA hit_point :
    Bind(MicroNeg(ray.direction), LAMBDA eye_v :
    Bind(MicroNormalAt(w.objects[self.object], hit_point), LAMBDA normal :
    Bind(MicroDot(normal, eye_v) < 0, LAMBDA inside :
    Bind(IF inside THEN MicroNeg(normal) ELSE normal, LAMBDA normal_v :
    Bind(ScanFrom(w, its, self, 1, ScanStart), LAMBDA scan :
        [t |-> self.t, object |-> self.object, point |-> hit_point,
         over_point |-> add(hit_point, MicroScale(normal_v, MicroEpsilon)),
         under_point |-> sub(hit_point, MicroScale(normal_v, MicroEpsilon)),
         eye_v |-> eye_v, normal_v |-> normal_v,
         reflect_v |-> MicroReflect(ray.direction, normal_v),
         inside |-> inside, n1 |-> scan.n1, n2 |-> scan.n2]))))))

\* Computation::schlick
MicroSchlick(comps) ==
    Bind(MicroDot(comps.eye_v, comps.normal_v), LAMBDA cos_i :
    Bind(MicroMul(MicroPow(MicroDiv(comps.n1, comps.n2), 2),
                  Micro - MicroPow(cos_i, 2)), LAMBDA sin2 :
    Bind(MicroPow(MicroDiv(comps.n1 - comps.n2, comps.n1 + comps.n2), 2),
         LAMBDA r0 :
        IF comps.n1 > comps.n2 /\ sin2 > Micro THEN Micro
        ELSE r0 + MicroMul(Micro - r0,
                     MicroPow(Micro - (IF comps.n1 > comps.n2
                                       THEN MicroSqrt(Micro - sin2)
                                       ELSE cos_i), 5)))))

\* a lighting that leaves the angle of the light out of the diffuse part
MicroLightingFlat(m, light, p, eye_v, normal_v, in_shadow) ==
    ColorAdd(ColorScale(ColorMul(m.color, light.intensity), m.ambient),
             IF in_shadow THEN MicroBlack
             ELSE ColorScale(ColorMul(m.color, light.intensity), m.diffuse))

\* Material::lighting of a material without a pattern
MicroLighting(m, light, p, eye_v, normal_v, in_shadow) ==
    Bind(ColorMul(m.color, light.intensity), LAMBDA effective_color :
    Bind(MicroNormalize(sub(light.position, p)), LAMBDA light_v :
    Bind(ColorScale(effective_color, m.ambient), LAMBDA ambient :
    Bind(MicroDot(light_v, normal_v), LAMBDA light_dot_normal :
        IF ~in_shadow /\ light_dot_normal >= 0
        THEN Bind(MicroDot(MicroNeg(MicroReflect(light_v, normal_v)), eye_v),
                  LAMBDA reflect_dot_eye :
                 ColorAdd(
                     ColorAdd(ambient,
                              ColorScale(ColorScale(effective_color, m.diffuse),
                                         light_dot_normal)),
                     IF reflect_dot_eye > 0
                     THEN ColorScale(ColorScale(light.intensity, m.specular),
                                     MicroPow(reflect_dot_eye, m.shininess))
                     ELSE MicroBlack))
        ELSE ColorAdd(ColorAdd(ambient, MicroBlack), MicroBlack)))))

\* World::is_shadowed
MicroIsShadowed(w, p) ==
    IF w.light = None THEN FALSE
    ELSE Bind(sub(w.light[1].position, p), LAMBDA direction_v :
         Bind(hit(MicroIntersect(w, Ray(p, MicroNormalize(direction_v)))),
              LAMBDA h :
             IF h = None THEN FALSE
             ELSE h[1].t < MicroMagnitude(direction_v)))

RECURSIVE MicroColorAt(_, _, _)
RECURSIVE MicroShadeHit(_, _, _)

\* World::reflected_color
MicroReflectedColor(w, comps, remaining) ==
    LET reflective == w.objects[comps.object].material.reflective IN
    IF remaining <= 0 THEN MicroBlack
    ELSE IF reflective = 0 THEN MicroBlack
    ELSE ColorScale(MicroColorAt(w, Ray(comps.over_point, comps.reflect_v),
                                 remaining - 1),
                    reflective)

\* World::refracted_color
MicroRefractedColor(w, comps, remaining) ==
    IF remaining <= 0 THEN MicroBlack
    ELSE IF w.objects[comps.object].material.transparency = 0 THEN MicroBlack
    ELSE Bind(MicroDiv(comps.n1, comps.n2), LAMBDA n_ratio :
         Bind(MicroDot(comps.eye_v, comps.normal_v), LAMBDA cos_i :
         Bind(MicroMul(MicroPow(n_ratio, 2), Micro - MicroPow(cos_i, 2)),
              LAMBDA sin2 :
             IF sin2 > Micro THEN MicroBlack
             ELSE ColorScale(
                      MicroColorAt(w,
                          Ray(comps.under_point,
                              sub(MicroScale(comps.normal_v,
                                      MicroMul(n_ratio, cos_i)
                                          - MicroSqrt(Micro - sin2)),
                                  MicroScale(comps.eye_v, n_ratio))),
                          remaining - 1),
                      w.objects[comps.object].material.transparency))))

\* World::shade_hit; unwrap of the light: the rendered world has one
MicroShadeHit(w, comps, remaining) ==
    Bind(w.objects[comps.object].material, LAMBDA m :
    Bind(MicroLighting(m, w.light[1], comps.over_point, comps.eye_v,
                       comps.normal_v, MicroIsShadowed(w, comps.over_point)),
         LAMBDA surface :
    Bind(MicroReflectedColor(w, comps, remaining), LAMBDA reflected :
    Bind(MicroRefractedColor(w, comps, remaining), LAMBDA refracted :
        IF m.reflective > 0 /\ m.transparency > 0
        THEN Bind(MicroSchlick(comps), LAMBDA reflectance :
                 ColorAdd(ColorAdd(surface,
                                   ColorScale(reflected, reflectance)),
                          ColorScale(refracted, Micro - reflectance)))
        ELSE ColorAdd(ColorAdd(surface, reflected), refracted)))))

\* World::color_at
MicroColorAt(w, ray, remaining) ==
    Bind(MicroIntersect(w, ray), LAMBDA its :
    Bind(hit(its), LAMBDA h :
        IF h = None THEN MicroBlack
        ELSE MicroShadeHit(w, MicroPrepareComputation(w, h[1], ray, its),
                           remaining)))

\* Camera::new with a view transform set; half_view is tan(fov / 2)
MicroCamera(h_size, v_size, half_view, transform) ==
    Bind(MicroDiv(h_size * Micro, v_size * Micro), LAMBDA aspect :
    Bind(IF aspect >= Micro THEN half_view ELSE MicroMul(half_view, aspect),
         LAMBDA half_width :
        [h_size |-> h_size, v_size |-> v_size, transform |-> transform,
         pixel_size |-> MicroDiv(half_width * 2, h_size * Micro),
         half_width |-> half_width,
         half_height |-> IF aspect >= Micro THEN MicroDiv(half_view, aspect)
                         ELSE half_view]))

\* Camera::ray_for_pixel
MicroRayForPixel(c, x, y) ==
    Bind(MicroInverses[c.transform][1], LAMBDA inverse_transform :
    Bind(MicroMulTuple(inverse_transform, MicroTuple(0, 0, 0, 1)),
         LAMBDA origin :
        Ray(origin,
            MicroNormalize(sub(
                MicroMulTuple(inverse_transform,
                    <<c.half_width
                          - MicroMul(x * Micro + Micro \div 2, c.pixel_size),
                      c.half_height
                          - MicroMul(y * Micro + Micro \div 2, c.pixel_size),
                      -Micro, Micro>>),
                origin)))))

\* Canvas::new
MicroCanvas(width, height) ==
    [width |-> width, height |-> height,
     pixels |-> [p \in (0 .. width - 1) \X (0 .. height - 1) |-> MicroBlack],
     panic |-> FALSE]

\* Canvas::pixel_at
pixel_at(c, x, y) ==
    IF x > c.width \/ y > c.height THEN None ELSE Some(c.pixels[<<x, y>>])

----------------------------------------------------------------------------
(* Specification SpecImage: Camera::_render of the default world, one      *)
(* state per pixel written.                                                *)

\* the material of the first sphere of the default world
Material1 ==
    [MicroMaterial EXCEPT !.color = <<800000, Micro, 600000>>,
                          !.diffuse = 700000, !.specular = 200000]

\* the default world: a light at (-10, 10, -10) and two spheres
DefaultWorld ==
    World(Some(PointLight(MicroTuple(-10, 10, -10, 1),
                          <<Micro, Micro, Micro>>)),
          <<MicroSphere(1, MicroIdentity, Material1),
            MicroSphere(2, MicroScaling(500000, 500000, 500000),
                        MicroMaterial)>>)

\* the width and height of the camera
ImageSize == 11

\* Camera::new(11, 11, PI / 2.) with its view transform; tan(PI / 4.) is 1
DefaultCamera ==
    MicroCamera(ImageSize, ImageSize, Micro,
                view_transform(MicroTuple(0, 0, -5, 1),
                               MicroTuple(0, 0, 0, 1),
                               MicroTuple(0, 1, 0, 0)))

InitImage ==
    /\ HitUnused /\ ScanUnused /\ WorldUnused /\ RenderUnused /\ CallUnused
    /\ image = MicroCanvas(DefaultCamera.h_size, DefaultCamera.v_size)
    /\ pixel = 0

\* one iteration of the loops of _render:
\* ray_for_pixel, color_at(ray, 5), write_pixel
RenderPixel ==
    /\ pixel < DefaultCamera.h_size * DefaultCamera.v_size
    /\ LET p == Pixel(DefaultCamera, pixel) IN
       image' = write_pixel(image, p[1], p[2],
                    MicroColorAt(DefaultWorld,
                        MicroRayForPixel(DefaultCamera, p[1], p[2]),
                        RenderDepth))
    /\ pixel' = pixel + 1
    /\ UNCHANGED <<hitVars, scanVars, worldVars, renderVars, callVars>>

NextImage == RenderPixel

SpecImage == InitImage /\ [][NextImage]_vars

----------------------------------------------------------------------------
(* Specification SpecRefracted: one call of World::refracted_color, for a  *)
(* computation prepared from an intersection of a ray with the default     *)
(* world whose spheres are opaque or glass.  The call returns black at     *)
(* once, or calls color_at and returns when color_at has returned.         *)

\* ShapeProps::set_material_transparency and set_material_refractive_index
set_glass(o, transparency, refractive_index) ==
    [o EXCEPT !.material.transparency = transparency,
              !.material.refractive_index = refractive_index]

\* an object left opaque, made glass as in the tests (transparency 1.0,
\* refractive index 1.5), or half transparent glass
GlassOptions == {<<0, Unit>>, <<Micro, 1500>>, <<Micro \div 2, 1500>>}

\* the default world with each sphere opaque or glass
RefractWorlds ==
    {World(DefaultWorld.light,
           <<set_glass(DefaultWorld.objects[1], g[1][1], g[1][2]),
             set_glass(DefaultWorld.objects[2], g[2][1], g[2][2])>>) :
        g \in GlassOptions \X GlassOptions}

\* the rays of the tests: (0,0,-5) -> (0,0,1), (0,0,sqrt(2)/2) -> (0,1,0)
\* and (0,0,0.1) -> (0,1,0)
RefractRays ==
    {Ray(MicroTuple(0, 0, -5, 1), MicroTuple(0, 0, 1, 0)),
     Ray(<<0, 0, MicroSqrt(2 * Micro) \div 2, Micro>>, MicroTuple(0, 1, 0, 0)),
     Ray(<<0, 0, Micro \div 10, Micro>>, MicroTuple(0, 1, 0, 0))}

\* World::refracted_color: sin2_t of Snell's law
refracted_sin2_t(comps) ==
    Bind(MicroDiv(comps.n1, comps.n2), LAMBDA n_ratio :
    Bind(MicroDot(comps.eye_v, comps.normal_v), LAMBDA cos_i :
        MicroMul(MicroPow(n_ratio, 2), Micro - MicroPow(cos_i, 2))))

\* World::refracted_color: the early returns
refracted_black(w, comps, remaining) ==
    \/ remaining <= 0
    \/ w.objects[comps.object].material.transparency = 0
    \/ refracted_sin2_t(comps) > Micro

\* a refracted ray that starts above the surface
refracted_ray_over(comps) ==
    Bind(MicroDiv(comps.n1, comps.n2), LAMBDA n_ratio :
    Bind(MicroDot(comps.eye_v, comps.normal_v), LAMBDA cos_i :
        Ray(comps.over_point,
            sub(MicroScale(comps.normal_v,
                    MicroMul(n_ratio, cos_i)
                        - MicroSqrt(Micro - refracted_sin2_t(comps))),
                MicroScale(comps.eye_v, n_ratio)))))

\* World::refracted_color: the refracted ray
refracted_ray(comps) ==
    Bind(MicroDiv(comps.n1, comps.n2), LAMBDA n_ratio :
    Bind(MicroDot(comps.eye_v, comps.normal_v), LAMBDA cos_i :
        Ray(comps.under_point,
            sub(MicroScale(comps.normal_v,
                    MicroMul(n_ratio, cos_i)
                        - MicroSqrt(Micro - refracted_sin2_t(comps))),
                MicroScale(comps.eye_v, n_ratio)))))

InitRefracted ==
    /\ HitUnused /\ ScanUnused /\ WorldUnused /\ RenderUnused /\ ImageUnused
    /\ out = NotRun
    /\ \E w \in RefractWorlds, ray \in RefractRays, remaining \in 0 .. MaxDepth :
          \E k \in 1 .. Len(MicroIntersect(w, ray)) :
              call = [op |-> "World::refracted_color", world |-> w,
                      computation |->
                          MicroPrepareComputation(w, MicroIntersect(w, ray)[k],
                              ray, MicroIntersect(w, ray)),
                      remaining |-> remaining]

\* refracted_color returns black without a color_at call
RefractedColorBlack ==
    /\ call.op = "World::refracted_color" /\ out = NotRun
    /\ refracted_black(call.world, call.computation, call.remaining)
    /\ out' = Outcome("color", MicroBlack)
    /\ UNCHANGED <<call, hitVars, scanVars, worldVars, renderVars, imageVars>>

\* refracted_color calls color_at
RefractedColorCall ==
    /\ call.op = "World::refracted_color" /\ out = NotRun
    /\ ~refracted_black(call.world, call.computation, call.remaining)
    /\ out' = Outcome("color_at",
                      [ray |-> refracted_ray(call.computation),
                       remaining |-> call.remaining - 1])
    /\ UNCHANGED <<call, hitVars, scanVars, worldVars, renderVars, imageVars>>

\* color_at returns, and refracted_color returns its color times the
\* transparency
RefractedColorReturn ==
    /\ call.op = "World::refracted_color" /\ out.kind = "color_at"
    /\ out' = Outcome("color",
                  ColorScale(MicroColorAt(call.world, out.val.ray,
                                          out.val.remaining),
                      call.world.objects[call.computation.object]
                          .material.transparency))
    /\ UNCHANGED <<call, hitVars, scanVars, worldVars, renderVars, imageVars>>

NextRefracted ==
    RefractedColorBlack \/ RefractedColorCall \/ RefractedColorReturn

SpecRefracted == InitRefracted /\ [][NextRefracted]_vars
----------------------------------------------------------------------------
(* Specification SpecShadow: one call of World::is_shadowed, for a point   *)
(* of the axis and a world with no light or a light on the axis.           *)

\* no light, a light between the shapes, one on the surface of Plane(-4)
\* and one outside the shapes
ShadowLights ==
    {None, Some(PointLight(0, Unit)), Some(PointLight(-4, Unit)),
     Some(PointLight(6, Unit))}

\* no object, one shape or two shapes, of the default material
ShadowObjects ==
    {<<>>}
    \cup {<<Object(1, s, NewMaterial)>> : s \in Shapes}
    \cup {<<Object(1, s[1], NewMaterial), Object(2, s[2], NewMaterial)>> :
             s \in Shapes \X Shapes}

ShadowPoints == -7 .. 7

\* the point is not the position of the light, where direction_v has no
\* direction
InitShadow ==
    /\ HitUnused /\ ScanUnused /\ WorldUnused /\ RenderUnused /\ ImageUnused
    /\ out = NotRun
    /\ \E l \in ShadowLights, os \in ShadowObjects, p \in ShadowPoints :
          /\ l # None => l[1].position # p
          /\ call = [op |-> "World::is_shadowed", world |-> World(l, os),
                     point |-> p]

\* World::is_shadowed is called and returns
IsShadowed ==
    /\ call.op = "World::is_shadowed" /\ out = NotRun
    /\ out' = Outcome("bool", is_shadowed(call.world, call.point))
    /\ UNCHANGED <<call, hitVars, scanVars, worldVars, renderVars, imageVars>>

NextShadow == IsShadowed

SpecShadow == InitShadow /\ [][NextShadow]_vars
----------------------------------------------------------------------------
(* Specification SpecCanvas: one call of Canvas::write_pixel or            *)
(* Canvas::pixel_at of src/scene/canvas.rs, or of Canvas::write_pixel of   *)
(* src/canvas.rs, on a small canvas with coordinates inside and outside.   *)

\* the largest width and height of a canvas
MaxSide == 2

\* Canvas::pixel_at: the index self.pixels[height][width] is out of bounds
pixel_at_panics(c, x, y) ==
    ~(x > c.width \/ y > c.height) /\ <<x, y>> \notin DOMAIN c.pixels

\* new canvases and canvases whose pixel (0, 0) has been written
Canvases ==
    {NewCanvas(s[1], s[2]) : s \in (1 .. MaxSide) \X (1 .. MaxSide)}
    \cup {write_pixel(NewCanvas(s[1], s[2]), 0, 0, Unit \div 2) :
             s \in (1 .. MaxSide) \X (1 .. MaxSide)}

CanvasOps ==
    {"scene::Canvas::write_pixel", "scene::Canvas::pixel_at",
     "Canvas::write_pixel"}

InitCanvas ==
    /\ HitUnused /\ ScanUnused /\ WorldUnused /\ RenderUnused /\ ImageUnused
    /\ out = NotRun
    /\ \E op \in CanvasOps, c \in Canvases :
          \E x \in 0 .. MaxSide + 1, y \in 0 .. MaxSide + 1 :
              call = [op |-> op, self |-> c, x |-> x, y |-> y, color |-> Unit]

\* Canvas::write_pixel of src/scene/canvas.rs
CallWritePixel ==
    /\ call.op = "scene::Canvas::write_pixel" /\ out = NotRun
    /\ out' = IF write_pixel(call.self, call.x, call.y, call.color).panic
              THEN Aborted
              ELSE Outcome("canvas",
                       write_pixel(call.self, call.x, call.y, call.color))
    /\ UNCHANGED <<call, hitVars, scanVars, worldVars, renderVars, imageVars>>

\* Canvas::pixel_at of src/scene/canvas.rs
CallPixelAt ==
    /\ call.op = "scene::Canvas::pixel_at" /\ out = NotRun
    /\ out' = IF pixel_at_panics(call.self, call.x, call.y) THEN Aborted
              ELSE Outcome("option", pixel_at(call.self, call.x, call.y))
    /\ UNCHANGED <<call, hitVars, scanVars, worldVars, renderVars, imageVars>>

\* Canvas::write_pixel of src/canvas.rs
CallGetWritePixel ==
    /\ call.op = "Canvas::write_pixel" /\ out = NotRun
    /\ out' = Outcome("canvas",
                  get_write_pixel(call.self, call.x, call.y, call.color))
    /\ UNCHANGED <<call, hitVars, scanVars, worldVars, renderVars, imageVars>>

NextCanvas == CallWritePixel \/ CallPixelAt \/ CallGetWritePixel

SpecCanvas == InitCanvas /\ [][NextCanvas]_vars

----------------------------------------------------------------------------
(* Specification SpecSphereIds: threads call Sphere::new of src/sphere.rs  *)
(* side by side.  call.SPHERE_IDS is the global counter, call.threads[t]   *)
(* the position of thread t in its current call, and out[t] the spheres    *)
(* returned to thread t so far.  The counter is a usize and wraps at 2^64 calls, far   *)
(* beyond the calls made here.                                             *)

\* the threads that call Sphere::new
NumThreads == 2

\* the calls of Sphere::new each thread makes
MaxNew == 3

\* a fetch that adds nothing to the counter
fetch_without_add(counter, val) == [previous |-> counter, counter |-> counter]

\* AtomicUsize::fetch_add(val, Ordering::SeqCst): one atomic step that
\* returns the previous value and adds val
fetch_add(counter, val) == [previous |-> counter, counter |-> counter + val]

\* Sphere { id, transform, material } of Sphere::new
NewSphere(id) ==
    [id |-> id, transform |-> "MATRIX_4X4_IDENTITY", material |-> "default"]

\* PartialEq for Sphere
SphereEq(a, b) == a.id = b.id

InitSphereIds ==
    /\ HitUnused /\ ScanUnused /\ WorldUnused /\ RenderUnused /\ ImageUnused
    /\ call = [SPHERE_IDS |-> 0,
               threads |-> [t \in 1 .. NumThreads |->
                               [pc |-> "idle", id |-> 0, calls |-> 0]]]
    /\ out = [t \in 1 .. NumThreads |-> <<>>]

\* Sphere::new, `let id = SPHERE_IDS.fetch_add(1, Ordering::SeqCst)`
SphereNewFetchAdd(t) ==
    /\ call.threads[t].pc = "idle"
    /\ call.threads[t].calls < MaxNew
    /\ call' = [call EXCEPT
                  !.SPHERE_IDS = fetch_add(call.SPHERE_IDS, 1).counter,
                  !.threads[t].pc = "new",
                  !.threads[t].id = fetch_add(call.SPHERE_IDS, 1).previous,
                  !.threads[t].calls = @ + 1]
    /\ UNCHANGED <<out, hitVars, scanVars, worldVars, renderVars, imageVars>>

\* Sphere::new returns Sphere { id, .. }
SphereNewReturn(t) ==
    /\ call.threads[t].pc = "new"
    /\ out' = [out EXCEPT ![t] = Append(@, NewSphere(call.threads[t].id))]
    /\ call' = [call EXCEPT !.threads[t].pc = "idle"]
    /\ UNCHANGED <<hitVars, scanVars, worldVars, renderVars, imageVars>>

NextSphereIds ==
    \/ \E t \in 1 .. NumThreads : SphereNewFetchAdd(t)
    \/ \E t \in 1 .. NumThreads : SphereNewReturn(t)

SpecSphereIds == InitSphereIds /\ [][NextSphereIds]_vars

----------------------------------------------------------------------------
(* Properties of Intersections::hit, checked under SpecHit *)

\* the t values of the pushed intersections that are not negative
NonNegative == {k \in 1 .. Len(items) : items[k].t >= 0}

\* C1: hit() returns the intersection with the smallest non-negative t
\* among all pushed intersections, in whatever order they were pushed, and
\* returns none exactly when every t is negative.
C1_HitSmallestNonNegative ==
    found # HitIdle =>
        LET h == found[1] IN
        /\ (h = None) <=> (NonNegative = {})
        /\ h # None =>
              /\ \E k \in NonNegative : items[k] = h[1]
              /\ \A k \in NonNegative : h[1].t <= items[k].t

----------------------------------------------------------------------------
(* Properties of prepare_computation, checked under SpecPrepare *)

\* the objects of the list A, B, C, B, C, A
ABCBCA == <<1, 2, 3, 2, 3, 1>>

\* the documented (n1, n2) of its 1st..6th intersection
Documented ==
    <<<<1000, 1500>>, <<1500, 2000>>, <<2000, 2500>>,
      <<2500, 2500>>, <<2500, 1500>>, <<1500, 1000>>>>

\* C2: for the sorted list A, B, C, B, C, A of three overlapping glass
\* objects with refractive indices 1.5, 2.0, 2.5, prepare_computation on the
\* 1st..6th intersection yields (n1, n2) = (1.0,1.5), (1.5,2.0), (2.0,2.5),
\* (2.5,2.5), (2.5,1.5), (1.5,1.0).
C2_N1N2Sequence ==
    (Returned /\ ObjectsOf(xs) = ABCBCA /\ target.id \in 1 .. 6) =>
        <<n1, n2>> = Documented[target.id]

\* the scan has returned for the 4th intersection of A, B, C, B, C, A, where
\* B is left while C still contains the point
C2_Witness ==
    /\ Returned /\ ObjectsOf(xs) = ABCBCA /\ target = xs[4]
    /\ containers = <<1, 3>>

\* how often object o occurs among the first k intersections of a list
Occurrences(its, k, o) ==
    Cardinality({j \in 1 .. k : its[j].object = o})

\* the objects that occur an odd number of times among the first k
OddObjects(its, k) ==
    {o \in {its[j].object : j \in 1 .. k} : Occurrences(its, k, o) % 2 = 1}

\* the place among the first k where object o occurs last
LastAt(its, k, o) ==
    CHOOSE j \in 1 .. k :
        /\ its[j].object = o
        /\ \A l \in 1 .. k : its[l].object = o => l <= j

\* the objects entered and not left after the first k intersections, in the
\* order in which they were last entered
Open(its, k) ==
    [r \in 1 .. Cardinality(OddObjects(its, k)) |->
        CHOOSE o \in OddObjects(its, k) :
            Cardinality({p \in OddObjects(its, k) :
                            LastAt(its, k, p) <= LastAt(its, k, o)}) = r]

\* the refractive index of the last object of Open, 1.0 when none is open
OpenIndex(w, its, k) ==
    IF Open(its, k) = <<>> THEN Unit
    ELSE w.objects[Open(its, k)[Len(Open(its, k))]].material.refractive_index

\* the place of the target in xs, 0 when it is no element of xs
TargetAt ==
    IF \E k \in 1 .. Len(xs) : xs[k].id = target.id
    THEN CHOOSE k \in 1 .. Len(xs) : xs[k].id = target.id
    ELSE 0

\* the lists that agree with xs up to its k-th element
SamePrefix(k) ==
    {ListOf(os) : os \in {s \in ObjectSeqs :
        /\ Len(s) >= k
        /\ \A j \in 1 .. k : s[j] = xs[j].object}}

\* C24: n1 and n2 of a target intersection depend only on the intersections
\* of the sorted list up to and including the target: n1 is the refractive
\* index of the last container before the target's object is toggled (1.0
\* if the list is empty), n2 is that of the last container after the toggle
\* (1.0 if empty), the scan stops at the target, and changing the
\* intersections that come after the target changes neither value.
C24_N1N2FromPrefix ==
    /\ [][(idx \in 1 .. Len(xs) /\ idx = TargetAt) =>
            /\ Returned'
            /\ n1' = OpenIndex(world, xs, idx - 1)
            /\ n2' = OpenIndex(world, xs, idx)]_vars
    /\ [](Returned /\ TargetAt # 0 =>
            /\ n1 = OpenIndex(world, xs, TargetAt - 1)
            /\ n2 = OpenIndex(world, xs, TargetAt)
            /\ containers = Open(xs, TargetAt)
            /\ \A ys \in SamePrefix(TargetAt) :
                  LET c == prepare_computation(world, ys[TargetAt],
                                               Ray(-3, 1), ys)
                  IN  c.n1 = n1 /\ c.n2 = n2)

\* the scan has returned for a target with intersections after it, inside
\* two objects before the toggle and one after it
C24_Witness ==
    /\ Returned /\ TargetAt # 0 /\ TargetAt < Len(xs)
    /\ Len(Open(xs, TargetAt - 1)) = 2
    /\ containers = Open(xs, TargetAt) /\ Len(containers) = 1
    /\ n1 # n2

\* C26: prepare_computation finds the target in xs by the per-intersection
\* id, not by (t, object): when the target is an element of xs both n1 and
\* n2 are set by the containers scan; when it is not an element of xs, even
\* if xs holds an intersection with the same t and object, the scan runs to
\* the end and n1 and n2 both stay at their initial value 0.0.
C26_TargetFoundById ==
    /\ [][Returned' =>
            IF \E k \in 1 .. Len(xs) : xs[k].id = target.id
            THEN /\ idx \in 1 .. Len(xs) /\ xs[idx].id = target.id
                 /\ n1' = LastIndex(world, containers)
                 /\ n2' = LastIndex(world, containers')
            ELSE /\ idx = Len(xs) + 1
                 /\ n1' = 0 /\ n2' = 0]_vars
    /\ [](Returned =>
            IF \E k \in 1 .. Len(xs) : xs[k].id = target.id
            THEN n1 >= Unit /\ n2 >= Unit
            ELSE n1 = 0 /\ n2 = 0 /\ containers = Open(xs, Len(xs)))

\* the scan has returned for a target that is no element of xs while the
\* first element of xs has its t and its object
C26_Witness ==
    /\ Returned /\ xs # <<>>
    /\ \A k \in 1 .. Len(xs) : xs[k].id # target.id
    /\ xs[1].t = target.t /\ xs[1].object = target.object
    /\ n1 = 0 /\ n2 = 0

\* no object is held twice
NoObjectTwice(cs) ==
    \A i, j \in 1 .. Len(cs) : cs[i] = cs[j] => i = j

\* C27: at every step of the containers scan in prepare_computation, the
\* containers list holds no object twice, and it holds an object exactly
\* when that object occurs an odd number of times among the intersections
\* scanned so far; objects stay in the order in which they were last
\* entered.
C27_ContainersParity ==
    /\ [](idx >= 1 =>
            /\ NoObjectTwice(containers)
            /\ {containers[j] : j \in 1 .. Len(containers)}
                   = OddObjects(xs, idx - 1)
            /\ containers = Open(xs, idx - 1))
    /\ [][(idx >= 1 /\ idx <= Len(xs)) =>
            /\ NoObjectTwice(containers')
            /\ {containers'[j] : j \in 1 .. Len(containers')}
                   = OddObjects(xs, idx)
            /\ containers' = Open(xs, idx)]_vars

\* an object was entered, left and entered again while another stayed open:
\* it now stands behind the other
C27_Witness ==
    /\ idx = 4 /\ Len(xs) >= 3
    /\ xs[1].object = xs[3].object /\ xs[2].object # xs[1].object
    /\ containers = <<xs[2].object>>
    /\ \E k \in 4 .. Len(xs) : xs[k].object = xs[1].object

----------------------------------------------------------------------------
(* Properties of World::color_at, checked under SpecWorld *)

\* a call whose remaining depth is 0 gets black from both recursive branches
ExhaustedBranchBlack ==
    \A k \in 1 .. Len(stack) :
        stack[k].remaining = 0 =>
            stack[k].reflected = Black /\ stack[k].refracted = Black

\* every nested call has one less remaining depth than its caller
DepthDecreases ==
    \A k \in 1 .. Len(stack) : stack[k].remaining = depth0 - (k - 1)

\* the callers wait for the call on top of the stack, which runs
TopRuns ==
    /\ \A k \in 1 .. Len(stack) - 1 :
          stack[k].pc \in {"reflected_color", "refracted_color"}
    /\ stack # <<>> => Top.pc \in {"color_at", "reflected", "refracted", "combine"}

\* the most steps a call with the remaining depth r takes: four of its own
\* and those of the two calls it makes when r > 0
Steps(r) == 2 ^ (r + 3) - 4

\* the most steps the stack has left: for every call its own steps and
\* those of the calls it has yet to make
Rank ==
    LET C(r) == IF r = 0 THEN 0 ELSE Steps(r - 1)
        Left(f) ==
            CASE f.pc = "color_at"        -> Steps(f.remaining)
              [] f.pc = "reflected"       -> 3 + 2 * C(f.remaining)
              [] f.pc = "reflected_color" -> 2 + C(f.remaining)
              [] f.pc = "refracted"       -> 2 + C(f.remaining)
              [] f.pc = "refracted_color" -> 1
              [] f.pc = "combine"         -> 1
        sum[k \in 0 .. Len(stack)] ==
            IF k = 0 THEN 0 ELSE Left(stack[k]) + sum[k - 1]
    IN  sum[Len(stack)]

\* C3: color_at terminates for every finite max_depth, also between two
\* facing fully reflective planes: the stack never grows beyond max_depth
\* + 1 calls, the call on top can always run, and every step lowers the
\* bound Rank on the steps left; the branch whose remaining depth reaches 0
\* contributes black.
C3_ColorAtTerminates ==
    /\ [](/\ ExhaustedBranchBlack /\ DepthDecreases /\ TopRuns
          /\ Len(stack) <= depth0 + 1)
    /\ [][stack' # stack => Rank' < Rank]_vars

\* between the two mirrors the recursion has used up a depth of MaxDepth:
\* the innermost call hit a mirror with remaining depth 0
C3_Witness ==
    /\ world = MirrorRoom(Some(PointLight(0, Unit)))
    /\ depth0 = MaxDepth
    /\ Len(stack) = depth0 + 1
    /\ Top.remaining = 0 /\ Top.pc = "combine"
    /\ world.objects[Top.comp.object].material.reflective = Unit

\* C7: a World without a light is not an error: color_at on it does not
\* fail for any ray, and every ray that hits an object yields an unlit
\* colour (black or ambient only).
C7_NoLightIsNotAnError ==
    (world.light = None /\ result # Pending) =>
        /\ ~result.panic
        /\ result.color <= Mul(Unit, NewMaterial.ambient)

\* both evaluations have returned
BothReturned == result # Pending /\ twin # Pending

\* C8: color_at is deterministic and leaves the World unchanged: two
\* evaluations with the same World, ray and remaining depth return identical
\* colours, whatever ids their intersections drew.
C8_ColorAtDeterministic ==
    /\ [](BothReturned => result = twin)
    /\ [][world' = world]_vars

\* both evaluations have returned a colour for a ray that hit one of two
\* objects whose surfaces coincide, so that the list holds equal t
C8_Witness ==
    /\ BothReturned /\ ~result.panic /\ result.color > Black
    /\ Len(world.objects) = 2
    /\ world.objects[1].material # world.objects[2].material
    /\ LET its == intersect(world, ray0, NoIds)
       IN  \E i, j \in 1 .. Len(its) :
              /\ its[i].object # its[j].object
              /\ its[i].t = its[j].t /\ its[i].t > 0

\* the (t, object) pairs Shape::intersect of the k-th object returns
PerObject(w, ray, k) ==
    LET r == ShapeIntersect(k, w.objects[k], ray)
    IN  IF r = None THEN <<>> ELSE r[1]

\* how many elements of a list are the pair (t, object)
Count(its, t, o) ==
    Cardinality({j \in 1 .. Len(its) : its[j].t = t /\ its[j].object = o})

RECURSIVE SumOfCounts(_, _, _)
SumOfCounts(w, ray, k) ==
    IF k = 0 THEN 0
    ELSE Len(PerObject(w, ray, k)) + SumOfCounts(w, ray, k - 1)

\* the list is the sorted union of the per-object lists
SortedUnion(w, ray, its) ==
    /\ Len(its) = SumOfCounts(w, ray, Len(w.objects))
    /\ \A k \in 1 .. Len(w.objects) :
          LET per == PerObject(w, ray, k)
              ts == {its[j].t : j \in 1 .. Len(its)}
                        \cup {per[j].t : j \in 1 .. Len(per)}
          IN  \A t \in ts : Count(its, t, k) = Count(per, t, k)
    /\ \A i, j \in 1 .. Len(its) : i < j => its[i].t <= its[j].t

\* the ray of the color_at call that is running, the outermost one included
CalledRays == IF stack = <<>> THEN {ray0} ELSE {Top.ray}

\* C9: World::intersect returns exactly the union of the intersections of
\* every object of the world, its length the sum of the per-object counts,
\* in non-decreasing t order, even when a shape returns its own
\* intersections unsorted (every call is the running one when it is made).
C9_IntersectSortedUnion ==
    \A ray \in CalledRays : \A u \in IdDraws :
        SortedUnion(world, ray, intersect(world, ray, u))

\* color_at has intersected a world of two objects one of which, a cylinder
\* hit from above, returned its cap hits in decreasing t order
C9_Witness ==
    /\ result # Pending
    /\ Len(world.objects) = 2
    /\ \E k \in 1 .. 2 :
          LET r == PerObject(world, ray0, k)
          IN  Len(r) = 2 /\ r[1].t > r[2].t
    /\ Len(intersect(world, ray0, NoIds)) = 4

\* the hit as documented: the first intersection with the smallest
\* non-negative t
DocumentedHit(its) ==
    LET nn == {k \in 1 .. Len(its) : its[k].t >= 0}
    IN  IF nn = {} THEN None
        ELSE Some(its[CHOOSE k \in nn : \A j \in nn :
                          its[k].t < its[j].t \/ (its[k].t = its[j].t /\ k <= j)])

\* C10: color_at returns black when the intersection list has no hit (it is
\* empty or all t are negative); otherwise it returns shade_hit of the
\* computation prepared for the hit against the full sorted list, with the
\* same remaining depth.
C10_ColorAtBlackIffNoHit ==
    result # Pending =>
        LET its == intersect(world, ray0, NoIds)
            h == DocumentedHit(its)
        IN  IF h = None THEN result = Ok(Black)
            ELSE result = shade_hit(world,
                                    prepare_computation(world, h[1], ray0, its),
                                    depth0, NoIds)

\* a step in which reflected_color or refracted_color calls color_at
CallStep == Len(stack') = Len(stack) + 1

\* C19: every color_at call made by reflected_color or refracted_color
\* passes remaining - 1 of the remaining its caller received, which is
\* never reset or increased, so along a chain of nested calls started with
\* max_depth the remaining depth strictly decreases and the chain holds at
\* most max_depth + 1 color_at calls.
C19_RemainingThreaded ==
    /\ [][CallStep =>
            /\ Top.remaining > 0
            /\ stack'[Len(stack')].remaining = Top.remaining - 1
            /\ \A k \in 1 .. Len(stack) :
                  stack'[k].remaining = stack[k].remaining]_vars
    /\ [][~CallStep =>
            \A k \in 1 .. Len(stack') :
                stack'[k].remaining = stack[k].remaining]_vars
    /\ [](/\ \A j, k \in 1 .. Len(stack) :
                j < k => stack[j].remaining > stack[k].remaining
          /\ stack # <<>> => stack[1].remaining = depth0
          /\ Len(stack) <= depth0 + 1)

\* a chain of max_depth + 1 calls made through refracted_color and then
\* reflected_color
C19_Witness ==
    /\ depth0 = MaxDepth /\ depth0 >= 2
    /\ Len(stack) = depth0 + 1
    /\ stack[1].pc = "refracted_color"
    /\ stack[2].pc = "reflected_color"

\* the colour the call on top of the stack returns when it returns
Returning ==
    IF Top.pc = "color_at" THEN Black
    ELSE combine(world, Top.comp, Top.surface, Top.reflected, Top.refracted)

\* C20: reflected_color returns black without casting a ray when remaining
\* is 0 or the hit object's reflective coefficient is 0; otherwise it makes
\* exactly one color_at call, for the ray from over_point along reflect_v
\* with remaining - 1, and returns that colour scaled by the coefficient.
C20_ReflectedColor ==
    /\ [][(stack # <<>> /\ Top.pc = "reflected" /\ stack' # stack) =>
            LET m == world.objects[Top.comp.object].material IN
            IF Top.remaining = 0 \/ m.reflective = 0
            THEN stack' = SetTop([Top EXCEPT !.reflected = Black,
                                             !.pc = "refracted"])
            ELSE stack' =
                   Append(SetTop([Top EXCEPT !.pc = "reflected_color"]),
                          Frame(Ray(Top.comp.over_point, Top.comp.reflect_v),
                                Top.remaining - 1))]_vars
    /\ [][(/\ Len(stack) >= 2
           /\ stack[Len(stack) - 1].pc = "reflected_color"
           /\ Len(stack') = Len(stack) - 1) =>
            LET caller == stack[Len(stack) - 1]
                m == world.objects[caller.comp.object].material
            IN  stack'[Len(stack')] =
                    [caller EXCEPT !.reflected = Mul(Returning, m.reflective),
                                   !.pc = "refracted"]]_vars
    /\ [](\A k \in 1 .. Len(stack) :
            stack[k].pc = "refracted" =>
                reflected_color(world, stack[k].comp, stack[k].remaining,
                                NoIds) = Ok(stack[k].reflected))

\* reflected_color has returned a colour scaled by a coefficient of 0.9
C20_Witness ==
    /\ stack # <<>> /\ Top.pc = "refracted"
    /\ Top.remaining >= 1
    /\ world.objects[Top.comp.object].material.reflective = 900
    /\ Top.reflected > Black

\* surface + reflected * R + refracted * (1 - R), with R the Schlick
\* reflectance of the computation
SchlickSum(comp, surface, reflected, refracted) ==
    surface + Mul(reflected, schlick(comp))
            + Mul(refracted, Unit - schlick(comp))

\* the colour shade_hit is documented to return from its three contributions
DocumentedSum(w, comp, surface, reflected, refracted) ==
    IF /\ w.objects[comp.object].material.reflective > 0
       /\ w.objects[comp.object].material.transparency > 0
    THEN SchlickSum(comp, surface, reflected, refracted)
    ELSE surface + reflected + refracted

\* C22: shade_hit returns surface + reflected*R + refracted*(1 - R), with R
\* the Schlick reflectance of the computation, exactly when the hit material
\* has both reflective > 0 and transparency > 0; in every other case it
\* returns surface + reflected + refracted, which with remaining = 0 is the
\* surface colour alone.
C22_ShadeHitSum ==
    [][(stack # <<>> /\ Top.pc = "combine" /\ stack' # stack) =>
          /\ Return(DocumentedSum(world, Top.comp, Top.surface, Top.reflected,
                                  Top.refracted))
          /\ Top.remaining = 0 => Return(Top.surface)]_vars

\* shade_hit of the outermost call has returned the Schlick sum of a lit
\* surface, a reflection and a refraction, which is not their plain sum
C22_Witness ==
    /\ stack = <<>> /\ result # Pending /\ ~result.panic /\ depth0 > 0
    /\ LET its == intersect(world, ray0, NoIds)
           h == hit(its)
       IN  /\ h # None
           /\ LET comp == prepare_computation(world, h[1], ray0, its)
                  m == world.objects[comp.object].material
                  surface == surface_color(world, comp)
                  reflected == reflected_color(world, comp, depth0, NoIds).color
                  refracted == refracted_color(world, comp, depth0, NoIds).color
              IN  /\ m.reflective > 0 /\ m.transparency > 0
                  /\ reflected > 0 /\ refracted > 0
                  /\ result.color = SchlickSum(comp, surface, reflected, refracted)
                  /\ result.color # surface + reflected + refracted

----------------------------------------------------------------------------
(* Properties of World::is_shadowed, checked under SpecShadow              *)

\* the ray from the point of the call toward the light
ShadowRay ==
    Ray(call.point,
        IF call.world.light[1].position < call.point THEN -1 ELSE 1)

\* the distance from the point of the call to the light
LightDistance ==
    IF call.world.light[1].position < call.point
    THEN call.point - call.world.light[1].position
    ELSE call.world.light[1].position - call.point

\* the t of the intersections of ShadowRay with the objects of the world
ShadowTs ==
    UNION {{PerObject(call.world, ShadowRay, k)[j].t :
               j \in 1 .. Len(PerObject(call.world, ShadowRay, k))} :
           k \in 1 .. Len(call.world.objects)}

\* C23: is_shadowed(point) is true exactly when the ray from point toward
\* the light has a hit (an intersection with positive t) whose t is less
\* than the distance from point to the light; an object beyond the light,
\* an object behind the point, or no object on the ray gives false, and a
\* world without a light gives false.
C23_ShadowedIffHitBeforeLight ==
    out.kind = "bool" =>
        out.val = (/\ call.world.light # None
                   /\ \E t \in ShadowTs : t > 0 /\ t < LightDistance)

\* is_shadowed has returned false for a point with an object beyond the
\* light and another behind the point
C23_Witness ==
    /\ out = Outcome("bool", FALSE)
    /\ call.world.light # None
    /\ \E t \in ShadowTs : t > LightDistance
    /\ \E t \in ShadowTs : t < 0

----------------------------------------------------------------------------
(* Properties of Camera::render_multi_threaded, checked under SpecRender   *)
(* and SpecRenderFair                                                      *)

\* the messages sent so far for pixel p: those in the channel and those
\* received
Sent(p) ==
    Cardinality({k \in 1 .. Len(chan) : <<chan[k].x, chan[k].y>> = p})
    + Cardinality({k \in 1 .. Len(received) : received[k] = p})

\* the task of pixel p has been submitted and has ended
Ended(p) ==
    /\ \E n \in 0 .. submitted - 1 : Pixel(cam, n) = p
    /\ \A k \in 1 .. Len(queue) : <<queue[k].x, queue[k].y>> # p
    /\ \A w \in 1 .. NumWorkers :
          workers[w] = None \/ <<workers[w][1].x, workers[w][1].y>> # p

Pixels == {Pixel(cam, n) : n \in 0 .. Max - 1}

\* C4: exactly h_size * v_size tasks are submitted, each task sends exactly
\* one (x, y, color) message, no two tasks send the same (x, y), and the
\* aggregator writes every pixel of the canvas exactly once.
C4_OneMessagePerTask ==
    /\ submitted <= Max
    /\ mainpc # "submit" => submitted = Max
    /\ \A p \in Pixels : Sent(p) = IF Ended(p) THEN 1 ELSE 0
    /\ mainpc = "returned" =>
          \A p \in Pixels :
              Cardinality({k \in 1 .. Len(received) : received[k] = p}) = 1

\* C5: for every completion order of the worker tasks the canvas returned
\* by render_multi_threaded is pixel for pixel the canvas returned by the
\* single-threaded _render for the same camera and world.
C5_SameCanvasAsRender ==
    mainpc = "returned" =>
        \A u \in IdDraws : render(cam, world, u) = [panic |-> FALSE,
                                                   canvas |-> canvas]

\* a canvas of two colours has been returned after the results arrived in
\* another order than the tasks were submitted
C5_Witness ==
    /\ mainpc = "returned"
    /\ \E p, q \in Pixels : canvas.pixels[p] # canvas.pixels[q]
    /\ \E k \in 1 .. Len(received) : received[k] # Pixel(cam, k - 1)

\* C6: once started, render_multi_threaded always runs to completion under
\* fair scheduling of the pool: every task eventually sends its result, all
\* receives complete and the canvas is returned.
C6_RenderCompletes == <>(mainpc = "returned")

----------------------------------------------------------------------------
(* Properties of the shapes' functions, checked under SpecCall *)

\* the functions that bring their argument into object space
TransformingCalls ==
    {"Sphere::intersect", "Sphere::normal_at",
     "Shape::intersect", "Shape::normal_at"}

\* the call has run
HasRun == out # NotRun

\* C11: intersect and normal_at on a shape whose transform has no inverse
\* (its determinant is 0) abort: they never return an intersection result,
\* a normal or anything else.
C11_SingularTransformAborts ==
    (/\ call.op \in TransformingCalls
     /\ HasRun
     /\ determinant(call.self.transform, 4) = 0) => out = Aborted

\* the ray of a Sphere::intersect call in the sphere's object space
ObjectRay == ray_transform(call.ray, inverses[call.self.transform][1])

\* the discriminant of the quadratic |origin + t * direction|^2 = 1
Discriminant(ray) ==
    LET o == vector(ray.origin[1], ray.origin[2], ray.origin[3])
    IN  4 * dot(ray.direction, o) * dot(ray.direction, o)
            - 4 * dot(ray.direction, ray.direction) * (dot(o, o) - One * One)

\* a call of Sphere::intersect on a sphere whose transform has an inverse
SphereCall ==
    /\ call.op = "Sphere::intersect"
    /\ call.self.transform \in Invertible

\* C12: Sphere::intersect returns no intersection exactly when the
\* discriminant is negative, and otherwise exactly two intersections t1, t2
\* in this order with t1 <= t2; on a tangent ray (discriminant 0) the two
\* have the same t.
C12_SphereTwoOrdered ==
    (SphereCall /\ HasRun) =>
        /\ out.kind \in {"none", "some"}
        /\ out.kind = "none" <=> Discriminant(ObjectRay) < 0
        /\ out.kind = "some" =>
              /\ Len(out.val) = 2
              /\ Le(out.val[1], out.val[2])
              /\ Discriminant(ObjectRay) = 0 => out.val[1] = out.val[2]

\* a tangent ray off the axes has returned its two equal intersections
C12_Witness ==
    /\ SphereCall /\ HasRun
    /\ call.self.transform # identity
    /\ Discriminant(ObjectRay) = 0
    /\ out.kind = "some" /\ out.val[1] = out.val[2]

\* a call of local_intersect on a shape of the kind has run
LocalIntersectRun(kind) ==
    /\ call.op = "Shape::local_intersect"
    /\ call.self.kind = kind
    /\ HasRun

\* the axes of a tuple: x, y, z
Axes == 1 .. 3

\* the range check_axis gives the called ray on an axis
AxisRange(i) == check_axis(call.ray.origin[i], call.ray.direction[i])

\* the axes on which the called ray does not move
Degenerate(i) == Abs(call.ray.direction[i]) < EPSILON

\* the greatest and the least of the values that are not NaN
Greatest(vals) ==
    CHOOSE v \in vals : v.k # "nan" /\ \A w \in vals : w.k # "nan" => Le(w, v)

Least(vals) ==
    CHOOSE v \in vals : v.k # "nan" /\ \A w \in vals : w.k # "nan" => Le(v, w)

\* the result the claim gives from the ranges of a set of axes
FromAxes(axes) ==
    LET t_min == Greatest({AxisRange(i)[1] : i \in axes})
        t_max == Least({AxisRange(i)[2] : i \in axes})
    IN  IF Lt(t_max, t_min) THEN Outcome("none", <<>>)
        ELSE Outcome("some", <<t_min, t_max>>)

\* Cube::local_intersect returns the result of the three ranges: none when
\* t_min > t_max, otherwise (t_min, t_max) with t_min <= t_max
CubeResult ==
    /\ out = FromAxes(Axes)
    /\ out.kind = "some" =>
          Len(out.val) = 2 /\ Le(out.val[1], out.val[2])

\* check_axis on an axis the ray does not move on: (-inf, +inf) strictly
\* inside the slab, twice the same infinity outside of it
DegenerateRanges ==
    \A i \in Axes :
        Degenerate(i) =>
            /\ Abs(call.ray.origin[i]) < One =>
                  AxisRange(i) = <<NEG_INFINITY, INFINITY>>
            /\ Abs(call.ray.origin[i]) > One =>
                  /\ AxisRange(i)[1] = AxisRange(i)[2]
                  /\ AxisRange(i)[1].k = "inf"

\* C13 as amended: Cube::local_intersect takes t_min as the maximum of the
\* per-axis minima and t_max as the minimum of the per-axis maxima, returns
\* none when t_min > t_max and otherwise the two intersections (t_min,
\* t_max) with t_min <= t_max; on an axis the ray does not move on,
\* check_axis gives (-inf, +inf) when the origin is strictly inside (-1, 1)
\* and an empty range when it is outside [-1, 1], so the ray misses whenever
\* its origin is outside that slab, and with the origin strictly inside it
\* the other two axes alone decide the result.
C13_CubeSlabs ==
    LocalIntersectRun("cube") =>
        /\ CubeResult
        /\ DegenerateRanges
        /\ \A i \in Axes :
              Degenerate(i) =>
                  /\ Abs(call.ray.origin[i]) > One => out.kind = "none"
                  /\ Abs(call.ray.origin[i]) < One =>
                        out = FromAxes(Axes \ {i})

\* a ray parallel to the x slab and inside of it has hit the cube, entering
\* through one face and leaving through another
C13_Witness ==
    /\ LocalIntersectRun("cube")
    /\ Degenerate(1) /\ Abs(call.ray.origin[1]) < One
    /\ ~Degenerate(2) /\ ~Degenerate(3)
    /\ out.kind = "some" /\ Lt(out.val[1], out.val[2])

\* C13 as stated: ... so a ray that does not move on an axis misses exactly
\* when its origin is outside the slab of that axis.
C13_MissesExactlyOutside ==
    LocalIntersectRun("cube") =>
        /\ CubeResult
        /\ DegenerateRanges
        /\ \A i \in Axes :
              Degenerate(i) =>
                  (out.kind = "none" <=> Abs(call.ray.origin[i]) > One)

\* the coefficients of the side wall's quadratic for the called ray
WallA ==
    call.ray.direction[1] * call.ray.direction[1]
        + call.ray.direction[3] * call.ray.direction[3]

WallB ==
    2 * call.ray.origin[1] * call.ray.direction[1]
        + 2 * call.ray.origin[3] * call.ray.direction[3]

WallC ==
    call.ray.origin[1] * call.ray.origin[1]
        + call.ray.origin[3] * call.ray.origin[3] - One * One

\* the roots of the side wall's quadratic, the smaller one first
WallRoots ==
    IF WallA = 0 \/ WallB * WallB - 4 * WallA * WallC < 0 THEN <<>>
    ELSE <<(-WallB - Sqrt(WallB * WallB - 4 * WallA * WallC))
               \div (2 * WallA),
           (-WallB + Sqrt(WallB * WallB - 4 * WallA * WallC))
               \div (2 * WallA)>>

\* the y of the called ray at t
YAt(t) == call.ray.origin[2] + t * call.ray.direction[2]

\* the square of the distance of the called ray from the y axis at t
Dist2At(t) ==
    (call.ray.origin[1] + t * call.ray.direction[1])
        * (call.ray.origin[1] + t * call.ray.direction[1])
    + (call.ray.origin[3] + t * call.ray.direction[3])
        * (call.ray.origin[3] + t * call.ray.direction[3])

\* the roots of the side wall the claim accepts: y strictly between min
\* and max
AcceptedRoots ==
    SelectSeq(WallRoots,
              LAMBDA t : /\ Lt(call.self.min, Fin(YAt(t)))
                         /\ Lt(Fin(YAt(t)), call.self.max))

\* the t at which the called ray meets the plane y = bound
CapT(bound) == (bound.v - call.ray.origin[2]) \div call.ray.direction[2]

\* the cap hits the claim accepts: the cylinder is closed, direction.y is
\* not ~0 and the hit is within the unit disk
AcceptedCaps ==
    IF ~call.self.closed \/ call.ray.direction[2] = 0 THEN <<>>
    ELSE SelectSeq(<<call.self.min, call.self.max>>,
                   LAMBDA bound : /\ bound.k = "fin"
                                  /\ Dist2At(CapT(bound)) <= One * One)

\* C14: Cylinder::local_intersect returns the side-wall roots whose y is
\* strictly between min and max (a root whose y is min or max is rejected)
\* followed by the cap hits, which it accepts only when the cylinder is
\* closed, direction.y is not ~0 and the hit has x^2 + z^2 <= 1; an open
\* cylinder returns no cap intersection.
C14_CylinderBoundsAndCaps ==
    (LocalIntersectRun("cylinder") /\ out.kind = "some") =>
        /\ Len(out.val) = Len(AcceptedRoots) + Len(AcceptedCaps)
        /\ \A k \in 1 .. Len(AcceptedRoots) :
              out.val[k] = Fin(AcceptedRoots[k])
        /\ \A k \in 1 .. Len(AcceptedCaps) :
              out.val[Len(AcceptedRoots) + k] = Fin(CapT(AcceptedCaps[k]))
        /\ ~call.self.closed =>
              \A k \in 1 .. Len(out.val) :
                  /\ WallA # 0
                  /\ Lt(call.self.min, Fin(YAt(out.val[k].v)))
                  /\ Lt(Fin(YAt(out.val[k].v)), call.self.max)

\* a root of the side wall whose y is exactly max was rejected while the
\* other root was accepted
C14_Witness ==
    /\ LocalIntersectRun("cylinder") /\ out.kind = "some"
    /\ ~call.self.closed
    /\ Len(WallRoots) = 2
    /\ Fin(YAt(WallRoots[2])) = call.self.max
    /\ out.val = <<Fin(WallRoots[1])>>

\* the coefficients of the cone's quadratic for the called ray
ConeA ==
    call.ray.direction[1] * call.ray.direction[1]
        - call.ray.direction[2] * call.ray.direction[2]
        + call.ray.direction[3] * call.ray.direction[3]

ConeB ==
    2 * call.ray.origin[1] * call.ray.direction[1]
        - 2 * call.ray.origin[2] * call.ray.direction[2]
        + 2 * call.ray.origin[3] * call.ray.direction[3]

ConeC ==
    call.ray.origin[1] * call.ray.origin[1]
        - call.ray.origin[2] * call.ray.origin[2]
        + call.ray.origin[3] * call.ray.origin[3]

\* C15: degenerate rays give ordinary results, never a failure.
\* Plane::local_intersect returns no intersection when |direction.y| <
\* EPSILON and otherwise exactly one; Cylinder::local_intersect with a ~ 0
\* returns only cap intersections (an empty list when open);
\* Cone::local_intersect with a ~ 0 returns none when b ~ 0 and otherwise
\* exactly one intersection, at t = -c / (2b).
C15_DegenerateRays ==
    /\ LocalIntersectRun("plane") =>
          IF Abs(call.ray.direction[2]) < EPSILON THEN out.kind = "none"
          ELSE out.kind = "some" /\ Len(out.val) = 1
    /\ (LocalIntersectRun("cylinder") /\ f64_eq(WallA, 0)) =>
          /\ out.kind = "some"
          /\ Len(out.val) = Len(AcceptedCaps)
          /\ \A k \in 1 .. Len(out.val) :
                out.val[k] = Fin(CapT(AcceptedCaps[k]))
          /\ ~call.self.closed => out.val = <<>>
    /\ (LocalIntersectRun("cone") /\ f64_eq(ConeA, 0)) =>
          IF f64_eq(ConeB, 0) THEN out.kind = "none"
          ELSE out = Outcome("some", <<Fin((-ConeC) \div (2 * ConeB))>>)

\* a ray parallel to one of the cone's halves has returned its single
\* intersection
C15_Witness ==
    /\ LocalIntersectRun("cone")
    /\ f64_eq(ConeA, 0) /\ ~f64_eq(ConeB, 0)
    /\ out.kind = "some" /\ Len(out.val) = 1

\* the calls that end in Shape::local_normal_at
NormalCalls ==
    {"Shape::local_normal_at", "Shape::normal_at",
     "Intersection::prepare_computation"}

\* C16: for every shape variant (Sphere, Plane, Cube, Cylinder and Cone)
\* local_normal_at returns a direction for any object-space point without
\* failing, so normal_at and prepare_computation, through which color_at
\* shades a hit on the variant, return as well.
C16_LocalNormalAtReturns ==
    (/\ call.op \in NormalCalls
     /\ HasRun
     /\ call.self.transform \in Invertible) => out.kind = "normal"

\* the floor of the distance of the called point from the y axis
RingOf(p) == Sqrt(p[1] * p[1] + p[3] * p[3]) \div One

\* C17: RingPattern::pattern_at depends only on the distance of the point
\* from the y axis: colour a when the floor of sqrt(x^2 + z^2) is even,
\* colour b when it is odd.
C17_RingByDistance ==
    (call.op = "RingPattern::pattern_at" /\ HasRun) =>
        out.val = <<IF RingOf(call.point) % 2 = 0
                    THEN call.self.a ELSE call.self.b>>

\* the normal of the called shape at the hit point of the call
HitNormal ==
    shape_normal_at(call.self, position3(call.ray, call.t)).val

\* the dot product of a normalized tuple with a tuple of integers is >= 0
\* (false when the normalized tuple is NaN)
NonNegativeDot(n, v) ==
    /\ \A i \in 1 .. 4 : n[i].k = "fin"
    /\ n[1].v * v[1] + n[2].v * v[2] + n[3].v * v[3] + n[4].v * v[4] >= 0

\* C25: in every Computation built by prepare_computation, normal_v dot
\* eye_v >= 0: inside is true exactly when the object's normal at the hit
\* point has a negative dot product with the eye vector, and in that case
\* normal_v is the negation of that normal; otherwise normal_v is the normal
\* unchanged and inside is false.
C25_NormalFacesEye ==
    (/\ call.op = "Intersection::prepare_computation"
     /\ HasRun /\ out.kind = "normal") =>
        /\ NonNegativeDot(out.val.normal_v, out.val.eye_v)
        /\ out.val.eye_v = scale(call.ray.direction, -1)
        /\ out.val.inside = negative_dot(HitNormal, out.val.eye_v)
        /\ out.val.normal_v =
              IF out.val.inside THEN neg(HitNormal) ELSE HitNormal

\* a Computation has been built for a hit from inside the shape: its
\* normal_v is the negated normal
C25_Witness ==
    /\ call.op = "Intersection::prepare_computation"
    /\ HasRun /\ out.kind = "normal"
    /\ out.val.inside
    /\ out.val.normal_v = neg(HitNormal)
    /\ out.val.normal_v # HitNormal

----------------------------------------------------------------------------
(* Properties of render of src/camera.rs, checked under SpecRows *)

\* the pixels of the camera
AllPixels == (0 .. cam.h_size - 1) \X (0 .. cam.v_size - 1)

\* C28: in the thread-per-row render function the sentinel never ends
\* aggregation early: for every order in which the sentinel and the pixel
\* messages arrive, the receive loop ends only after every row thread has
\* sent all h_size pixels of its row and all senders are dropped, so every
\* one of the h_size*v_size pixels is written before the canvas is
\* returned.
C28_SentinelNeverEndsEarly ==
    mainpc = "returned" =>
        /\ \A y \in 0 .. cam.v_size - 1 : workers[y].x = cam.h_size
        /\ Disconnected
        /\ \A p \in AllPixels : \E k \in 1 .. Len(received) : received[k] = p

----------------------------------------------------------------------------
(* Properties of Camera::_render, checked under SpecImage *)

\* _render has returned: every pixel of the canvas has been written
Rendered == pixel = DefaultCamera.h_size * DefaultCamera.v_size

\* Color::new(0.38066, 0.47583, 0.2855)
ExpectedColor == <<380660, 475830, 285500>>

\* C18: rendering the default world (two spheres, one light at (-10,10,-10))
\* with an 11x11 camera, field of view pi/2 and the view transform from
\* (0,0,-5) to the origin gives pixel (5,5) the color
\* (0.38066, 0.47583, 0.2855) within epsilon.
C18_CentrePixelColor ==
    Rendered =>
        /\ pixel_at(image, 5, 5) # None
        /\ ColorEq(ExpectedColor, pixel_at(image, 5, 5)[1])

\* the render has returned a canvas whose centre pixel is lit
C18_Witness ==
    /\ Rendered
    /\ ~image.panic
    /\ pixel_at(image, 5, 5) # Some(MicroBlack)

----------------------------------------------------------------------------
(* Properties of World::refracted_color, checked under SpecRefracted.      *)

\* sin2_t = (n1/n2)^2 * (1 - cos_i^2) of a computation
SnellSin2(comps) ==
    MicroMul(MicroPow(MicroDiv(comps.n1, comps.n2), 2),
             Micro - MicroPow(MicroDot(comps.eye_v, comps.normal_v), 2))

\* the transparency of the object hit in the call
HitTransparency ==
    call.world.objects[call.computation.object].material.transparency

\* the three cases in which no ray is cast
NoRayCast ==
    \/ call.remaining = 0
    \/ HitTransparency = 0
    \/ SnellSin2(call.computation) > Micro

\* C21: refracted_color returns black without casting a ray when remaining
\* is 0, when the transparency of the hit object is 0, or under total
\* internal reflection (sin2_t > 1); otherwise it makes exactly one color_at
\* call, for a ray that starts at under_point with remaining - 1, and
\* returns the color of that call scaled by the transparency.
C21_RefractedColorBlackOrOneCall ==
    [][/\ out = NotRun =>
            IF NoRayCast
            THEN out' = Outcome("color", MicroBlack)
            ELSE /\ out'.kind = "color_at"
                 /\ out'.val.ray.origin = call.computation.under_point
                 /\ out'.val.remaining = call.remaining - 1
       /\ out.kind = "color_at" =>
            out' = Outcome("color",
                       ColorScale(MicroColorAt(call.world, out.val.ray,
                                               out.val.remaining),
                                  HitTransparency))
       /\ out.kind # "color"]_vars

\* refracted_color has returned black under total internal reflection, with
\* remaining > 0 and a transparent object
C21_Witness ==
    /\ call.op = "World::refracted_color"
    /\ out = Outcome("color", MicroBlack)
    /\ call.remaining > 0
    /\ HitTransparency > 0
    /\ SnellSin2(call.computation) > Micro

----------------------------------------------------------------------------
(* Properties of Canvas, checked under SpecCanvas *)

\* C29: Canvas.write_pixel and Canvas.pixel_at never fail on out-of-range
\* coordinates: for any x >= width or y >= height, write_pixel leaves every
\* pixel of the canvas unchanged and pixel_at returns None; for x < width
\* and y < height write_pixel changes exactly the pixel (x, y).
C29_CanvasOutOfRange ==
    (call.op \in CanvasOps /\ out # NotRun) =>
        /\ out.kind # "panic"
        /\ IF call.x >= call.self.width \/ call.y >= call.self.height
           THEN IF call.op = "scene::Canvas::pixel_at"
                THEN out = Outcome("option", None)
                ELSE out.val.pixels = call.self.pixels
           ELSE call.op # "scene::Canvas::pixel_at" =>
                    out.val.pixels =
                        [call.self.pixels EXCEPT
                            ![<<call.x, call.y>>] = call.color]

----------------------------------------------------------------------------
(* Properties of Sphere::new, checked under SpecSphereIds *)

\* the threads that are inside a call of Sphere::new
InNew == {t \in 1 .. NumThreads : call.threads[t].pc = "new"}

\* the spheres returned so far: (thread, number of the call)
SpheresReturned ==
    {a \in (1 .. NumThreads) \X (1 .. MaxNew) : a[2] <= Len(out[a[1]])}

\* C30: any two shapes created by separate Sphere::new calls have different
\* ids, including when the calls run concurrently on different threads: each
\* call takes its id with one atomic fetch_add on the global counter, so no
\* id is handed out twice.
C30_SphereIdsDistinct ==
    /\ [](/\ \A a, b \in SpheresReturned :
                a # b => out[a[1]][a[2]].id # out[b[1]][b[2]].id
                         /\ ~SphereEq(out[a[1]][a[2]], out[b[1]][b[2]])
          /\ \A t \in InNew :
                /\ \A u \in InNew : u # t =>
                      call.threads[u].id # call.threads[t].id
                /\ \A a \in SpheresReturned :
                      out[a[1]][a[2]].id # call.threads[t].id)
    /\ [][call'.SPHERE_IDS # call.SPHERE_IDS =>
            /\ call'.SPHERE_IDS = call.SPHERE_IDS + 1
            /\ \E t \in 1 .. NumThreads :
                  /\ t \notin InNew /\ t \in InNew'
                  /\ call'.threads[t].id = call.SPHERE_IDS
                  /\ \A u \in 1 .. NumThreads :
                        u # t => call'.threads[u] = call.threads[u]]_vars

\* two threads are inside Sphere::new at once, after a third call has
\* returned its sphere
C30_Witness ==
    /\ Cardinality(InNew) >= 2
    /\ SpheresReturned # {}
    /\ \E t, u \in InNew : call.threads[t].id # call.threads[u].id

====
